---------------------------- MODULE Spec2Model ----------------------------
(***************************************************************************)
(* Model of the client script of onenote-flashcards (src/unnamed/part_000):*)
(* the spaced-repetition scheduler, the Card Store merge performed by      *)
(* loadFlashcards, the study-session state machine, and the pushes to the  *)
(* server with their retry queue.                                          *)
(*                                                                         *)
(* Representation.  Time is counted in whole days (now); a due date is the *)
(* day number it falls on.  A JavaScript number field holds an integer or  *)
(* one of the markers Undefined, NaN, Null.  An ease factor is an exact    *)
(* fraction <<numerator, denominator>> in lowest terms (2.5 is <<5, 2>>),  *)
(* or <<>> when the property is absent; IEEE rounding of the products is   *)
(* not represented.  Page titles, answers and timestamps of decks carry no *)
(* behaviour and are left out of the card and deck records.                *)
(***************************************************************************)
EXTENDS Integers, Sequences, FiniteSets, Bags, TLC

(***************************************************************************)
(* JavaScript values that are not numbers.                                 *)
(***************************************************************************)
Undefined == -1
NaN == -2
Null == -3

IsNumber(v) == v >= 0

\* !v for a numeric field: undefined, null, NaN and 0 are falsy.
Falsy(v) == v \in {Undefined, Null, NaN, 0}

(***************************************************************************)
(* Card scheduling constants (part_000 lines 30-37).                       *)
(***************************************************************************)
EASE_FACTOR_DEFAULT == <<5, 2>>
EASE_MODIFIER_HARD == <<17, 20>>
EASE_MODIFIER_GOOD == <<1, 1>>
EASE_MODIFIER_EASY == <<13, 10>>
INTERVAL_MODIFIER == <<1, 1>>
NEW_INTERVAL_HARD == <<3, 5>>
MIN_INTERVAL == 1
MAX_INTERVAL == 1460
EASE_FLOOR == <<13, 10>>
EASE_PENALTY_AGAIN == <<1, 5>>

(***************************************************************************)
(* Exact arithmetic on fractions.                                          *)
(***************************************************************************)
RECURSIVE Gcd(_, _)
Gcd(a, b) == IF b = 0 THEN a ELSE Gcd(b, a % b)

RatNorm(n, d) == LET g == Gcd(n, d) IN <<n \div g, d \div g>>

RatOfInt(i) == <<i, 1>>

\* Product, cancelling across before multiplying.
RatMul(a, b) ==
    LET g1 == Gcd(a[1], b[2])
        g2 == Gcd(b[1], a[2])
    IN  RatNorm((a[1] \div g1) * (b[1] \div g2), (a[2] \div g2) * (b[2] \div g1))

RatSub(a, b) == RatNorm(a[1] * b[2] - b[1] * a[2], a[2] * b[2])

RatLess(a, b) == a[1] * b[2] < b[1] * a[2]

RatMax(a, b) == IF RatLess(a, b) THEN b ELSE a

\* Math.ceil of a non-negative fraction.
RatCeil(a) == (a[1] + a[2] - 1) \div a[2]

Max(a, b) == IF a < b THEN b ELSE a
Min(a, b) == IF a < b THEN a ELSE b

(***************************************************************************)
(* Bounds of the model.                                                    *)
(***************************************************************************)
MaxNow == 1
MaxReviews == 2

Ratings == {"again", "hard", "good", "easy"}

Decks == {"p1", "p2"}
Questions == {"q1", "q2"}
TagNames == {"t1"}

(***************************************************************************)
(* The state of the client.                                                *)
(***************************************************************************)
VARIABLES
    allFlashcards,      \* Card Store: deck id -> sequence of cards
    currentPageId,      \* deck shown in the cards view, "" when none
    currentCardIndex,   \* 0-based cursor of the cards view
    currentView,        \* the view shown: "home", "cards" or "study"
    studySession,       \* [active, queue, currentIndex]
    studyScreen,        \* what showStudyCard last put on the study view
    userStudyStats,     \* counters of recordCardReview
    localStorage,       \* persisted allFlashcards, studySession, userStudyStats
                        \* and pendingSaves
    now,                \* the current day
    pendingSaves,       \* retry queue: sequence of [timestamp, data]
    online,             \* navigator.onLine
    tasks,              \* bag of the async calls waiting for a response
    delivered,          \* the Card Stores the server has accepted
    exitTimer,          \* the timer of exitStudyMode (line 3841) is running
    autoAdvanceTimer,   \* the interval timer of startAutoAdvance is running
    answerHidden,       \* the answer of the cards view has the class hidden
    isSyncing,          \* the flag of syncSection and fullSync (line 10)
    syncTasks,          \* bag of the syncs waiting for a response
    last                \* the handler that ran last, with what it was given

vars == <<allFlashcards, currentPageId, currentCardIndex, currentView,
          studySession, studyScreen, userStudyStats, localStorage, now,
          pendingSaves, online, tasks, delivered, exitTimer, autoAdvanceTimer,
          answerHidden, isSyncing, syncTasks, last>>

\* The state of the syncs.
syncVars == <<isSyncing, syncTasks>>

\* The state of the pushes to the server.
pushVars == <<pendingSaves, online, tasks, delivered>>

(***************************************************************************)
(* card.reviewCount++ (line 2586): undefined and NaN give NaN, null counts *)
(* as 0.                                                                   *)
(***************************************************************************)
PostIncrement(v) ==
    IF v \in {Undefined, NaN} THEN NaN
    ELSE IF v = Null THEN 1
    ELSE v + 1

\* !card.ease: the property is absent or 0.
EaseFalsy(e) == e = <<>> \/ e[1] = 0

\* Mutant of ApplyLimits: the upper limit is forgotten.
ApplyLimitsNoMaximum(newInterval) == Max(MIN_INTERVAL, newInterval)

\* Math.min(MAX_INTERVAL, Math.max(MIN_INTERVAL, newInterval)), line 2639:
\* NaN when the switch left newInterval undefined.
ApplyLimits(newInterval) ==
    IF newInterval \in {Undefined, NaN} THEN NaN
    ELSE Min(MAX_INTERVAL, Max(MIN_INTERVAL, newInterval))

\* Mutant of NewInterval: 'easy' grows the interval like 'good'.
NewIntervalEasyAsGood(interval, ease, rating) ==
    CASE rating = "again" -> 1
      [] rating = "hard" ->
            IF interval = 0 THEN 1
            ELSE Max(2, RatCeil(RatMul(RatOfInt(interval), NEW_INTERVAL_HARD)))
      [] rating \in {"good", "easy"} ->
            IF interval = 0 THEN 1
            ELSE IF interval = 1 THEN 3
            ELSE RatCeil(RatMul(RatOfInt(interval), ease))

\* The switch of lines 2591-2636: the interval before the limits are applied.
\* The switch has no default: any other rating leaves newInterval undefined.
NewInterval(interval, ease, rating) ==
    CASE rating = "again" -> 1
      [] rating = "hard" ->
            IF interval = 0 THEN 1
            ELSE Max(2, RatCeil(RatMul(RatOfInt(interval), NEW_INTERVAL_HARD)))
      [] rating = "good" ->
            IF interval = 0 THEN 1
            ELSE IF interval = 1 THEN 3
            ELSE RatCeil(RatMul(RatMul(RatOfInt(interval), ease), INTERVAL_MODIFIER))
      [] rating = "easy" ->
            IF interval = 0 THEN 3
            ELSE IF interval = 1 THEN 7
            ELSE RatCeil(RatMul(RatMul(RatMul(RatOfInt(interval), ease),
                                       EASE_MODIFIER_EASY), INTERVAL_MODIFIER))
      [] OTHER -> Undefined

\* Mutant of NewEase: 'hard' multiplies without the floor.
NewEaseHardUnclamped(ease, rating) ==
    CASE rating = "again" -> RatMax(EASE_FLOOR, RatSub(ease, EASE_PENALTY_AGAIN))
      [] rating = "hard" -> RatMul(ease, EASE_MODIFIER_HARD)
      [] rating = "good" -> RatMul(ease, EASE_MODIFIER_GOOD)
      [] rating = "easy" -> RatMul(ease, EASE_MODIFIER_EASY)

\* Mutant of NewEase: 'again' takes the penalty of 'hard'.
NewEaseAgainAsHard(ease, rating) ==
    CASE rating \in {"again", "hard"} -> RatMax(EASE_FLOOR, RatMul(ease, EASE_MODIFIER_HARD))
      [] rating = "good" -> RatMul(ease, EASE_MODIFIER_GOOD)
      [] rating = "easy" -> RatMul(ease, EASE_MODIFIER_EASY)

\* The switch of lines 2591-2636: the new ease, undefined (an absent
\* property) for any other rating.
NewEase(ease, rating) ==
    CASE rating = "again" -> RatMax(EASE_FLOOR, RatSub(ease, EASE_PENALTY_AGAIN))
      [] rating = "hard" -> RatMax(EASE_FLOOR, RatMul(ease, EASE_MODIFIER_HARD))
      [] rating = "good" -> RatMul(ease, EASE_MODIFIER_GOOD)
      [] rating = "easy" -> RatMul(ease, EASE_MODIFIER_EASY)
      [] OTHER -> <<>>

(***************************************************************************)
(* applySpacedRepetition(card, rating), lines 2579-2649, on day today.     *)
(* Line 2583 tests (!card.reviewCount) === undefined, which is never true, *)
(* so reviewCount is not initialised before it is incremented.  With a     *)
(* newInterval of NaN, setDate at line 2647 makes dueDate an Invalid Date  *)
(* and toISOString at line 2648 throws a RangeError: card.due is not       *)
(* assigned, the fields assigned before it are.                            *)
(***************************************************************************)
InvalidDate(newInterval) == newInterval = NaN

\* Mutant of applySpacedRepetition: the due date is never assigned.
applySpacedRepetitionNoDue(card, rating, today) ==
    LET interval == IF Falsy(card.interval) THEN 0 ELSE card.interval
        ease == IF EaseFalsy(card.ease) THEN EASE_FACTOR_DEFAULT ELSE card.ease
        newInterval == ApplyLimits(NewInterval(interval, ease, rating))
    IN  [card EXCEPT !.reviewCount = PostIncrement(card.reviewCount),
                     !.interval = newInterval,
                     !.ease = NewEase(ease, rating)]

applySpacedRepetition(card, rating, today) ==
    LET interval == IF Falsy(card.interval) THEN 0 ELSE card.interval
        ease == IF EaseFalsy(card.ease) THEN EASE_FACTOR_DEFAULT ELSE card.ease
        newInterval == ApplyLimits(NewInterval(interval, ease, rating))
    IN  [card EXCEPT !.reviewCount = PostIncrement(card.reviewCount),
                     !.interval = newInterval,
                     !.ease = NewEase(ease, rating),
                     !.due = IF InvalidDate(newInterval) THEN card.due
                             ELSE today + newInterval]

\* Whether the call ends in the RangeError of line 2648.
applySpacedRepetitionThrows(card, rating) ==
    LET interval == IF Falsy(card.interval) THEN 0 ELSE card.interval
        ease == IF EaseFalsy(card.ease) THEN EASE_FACTOR_DEFAULT ELSE card.ease
    IN  InvalidDate(ApplyLimits(NewInterval(interval, ease, rating)))

\* The highest reviewCount a rating that throws is followed up to.
MaxReviewCount == 6

(***************************************************************************)
(* updateStudyStreak(), lines 413-442, on day today: lastStudyDate is null *)
(* or a day.                                                               *)
(***************************************************************************)
updateStudyStreak(stats, today) ==
    IF stats.lastStudyDate = today THEN stats
    ELSE [stats EXCEPT
            !.streakDays = IF stats.lastStudyDate # Null
                              /\ stats.lastStudyDate = today - 1
                           THEN PostIncrement(@) ELSE 1,
            !.lastStudyDate = today]

\* The length the review history is cut back to (lines 474-475).
HISTORY_CAP == 1000

\* Mutant of PushHistory: past the cap the newest entries are dropped.
PushHistoryKeepOldest(history, entry) ==
    IF Len(history) + 1 > HISTORY_CAP
    THEN SubSeq(Append(history, entry), 1, HISTORY_CAP)
    ELSE Append(history, entry)

\* Lines 462-476: reviewHistory.push(entry), then slice(-1000) when the
\* history holds more than 1000 entries.
PushHistory(history, entry) ==
    IF Len(history) + 1 > HISTORY_CAP
    THEN SubSeq(Append(history, entry), Len(history) + 2 - HISTORY_CAP,
                Len(history) + 1)
    ELSE Append(history, entry)

\* Lines 479-485: the counters of a deck, created on its first review.
NoDeckStats == [cardsStudied |-> 0, totalReviews |-> 0, correctReviews |-> 0]

DeckStatsOf(deckStats, pageId) ==
    IF pageId \in DOMAIN deckStats THEN deckStats[pageId] ELSE NoDeckStats

\* Lines 462-471: the history entry of a review of card, read after the
\* scheduler has updated the card.  Of its fields the day, the card's
\* position, the rating and the two intervals are kept.
HistoryEntry(card, cardIndex, pageId, result, today) ==
    [date |-> today, cardIndex |-> cardIndex, pageId |-> pageId,
     result |-> result,
     previousInterval |-> IF Falsy(card.interval) THEN 0 ELSE card.interval,
     newInterval |-> card.interval]

\* Lines 457 and 493: !card.reviewCount || card.reviewCount === 0.
FirstTimeSeen(card) == Falsy(card.reviewCount)

(***************************************************************************)
(* recordCardReview(cardIndex, pageId, result), lines 445-509, on day      *)
(* today; cards is the Card Store after the rating was applied, and        *)
(* cardIndex is 0-based.  Without the card the function returns after the  *)
(* two global counters, before the streak is updated and anything saved.   *)
(***************************************************************************)
recordCardReview(stats, cards, cardIndex, pageId, result, today) ==
    LET correct == IF result \in {"good", "easy"} THEN 1 ELSE 0
        counted == [stats EXCEPT !.totalReviews = @ + 1,
                                 !.correctReviews = @ + correct]
        exists == pageId \in DOMAIN cards /\ cardIndex < Len(cards[pageId])
    IN  IF ~exists THEN counted
        ELSE LET card == cards[pageId][cardIndex + 1]
                 first == IF FirstTimeSeen(card) THEN 1 ELSE 0
                 deck == DeckStatsOf(stats.deckStats, pageId)
                 recorded ==
                    [counted EXCEPT
                        !.cardsStudied = @ + first,
                        !.reviewHistory =
                            PushHistory(@, HistoryEntry(card, cardIndex, pageId,
                                                        result, today)),
                        !.deckStats =
                            [p \in DOMAIN @ \cup {pageId} |->
                                IF p = pageId
                                THEN [cardsStudied |-> deck.cardsStudied + first,
                                      totalReviews |-> deck.totalReviews + 1,
                                      correctReviews |-> deck.correctReviews + correct]
                                ELSE @[p]]]
             IN  updateStudyStreak(recorded, today)

\* JSON.stringify writes NaN as null; JSON.parse reads null back.
Stringify(v) == IF v = NaN THEN Null ELSE v

\* JSON.parse(JSON.stringify(allFlashcards)): the Card Store as it is read
\* back from its text (lines 3866, 3910, 3924 and 3947).
ToJSON(cards) ==
    [p \in DOMAIN cards |->
        [i \in 1..Len(cards[p]) |->
            [cards[p][i] EXCEPT !.interval = Stringify(@),
                                !.reviewCount = Stringify(@),
                                !.due = Stringify(@)]]]

\* Mutant of saveFlashcardsToLocalStorage: nothing is stored.
saveFlashcardsToLocalStorageNever(storage, cards) == storage

\* saveFlashcardsToLocalStorage(), lines 3861-3897.
saveFlashcardsToLocalStorage(storage, cards) ==
    [storage EXCEPT !.allFlashcards = ToJSON(cards)]

\* Mutant of saveStudySession: nothing is stored.
saveStudySessionNever(storage, session) == storage

\* saveStudySession(), lines 3462-3468.
saveStudySession(storage, session) ==
    [storage EXCEPT !.studySession = <<session>>]

\* saveStudyStats(), lines 404-410.
saveStudyStats(storage, stats) ==
    [storage EXCEPT !.userStudyStats = <<stats>>]

\* What the last handler was given and found: the card it rated as it was
\* before, the day it ran on, the payload it merged, whether it came to show
\* the card at the cursor, the cursor it then started from and the number of
\* queue entries skipped from there, whether init offered to resume the
\* persisted session, and the async call that went on with the outcome of
\* the request it was waiting for, the notification it showed, and the
\* counts it was given by getDueCounts.
NoLast == [op |-> "none", pageId |-> "", cardIndex |-> 0, rating |-> "",
           before |-> <<>>, day |-> 0, payload |-> <<>>, shown |-> FALSE,
           shownFrom |-> 0, skipped |-> 0, offered |-> FALSE,
           task |-> <<>>, outcome |-> "", notification |-> "",
           counts |-> <<>>]

(***************************************************************************)
(* The pushes to the server.  saveFlashcardsToServer and                   *)
(* processPendingSaves are async: each call runs up to its next await,     *)
(* waits in tasks for the response, and goes on when it arrives.  A call   *)
(* is [pc, i, body, caller]: where it waits, the index of its flush loop,  *)
(* the body of the request it sent, and who called it.                     *)
(***************************************************************************)
\* The calls that wait for a response at one time.
MaxTasks == 2

\* What a fetch comes to: a response that is OK, a response with another
\* status, or an exception.  Offline, no request completes.
FetchOutcomes(isOnline) ==
    IF isOnline THEN {"ok", "status", "throw"} ELSE {"throw"}

\* Line 3903: saveFlashcardsToServer() waits for checkAuthStatus().
SaveCall == [pc |-> "auth", i |-> 0, body |-> <<>>, caller |-> "save"]

Finish(bag, task) == bag (-) SetToBag({task})
GoOn(bag, task, next) == (bag (-) SetToBag({task})) (+) SetToBag({next})

\* Lines 3908-3911 and 3945-3948: the entry pushed onto pendingSaves.
QueuedSave(cards, time) == [timestamp |-> time, data |-> ToJSON(cards)]

\* Lines 3912 and 3949, 272: localStorage.setItem('pendingSaves', ...).
setPendingSaves(storage, saves) == [storage EXCEPT !.pendingSaves = <<saves>>]

\* Line 281: localStorage.removeItem('pendingSaves').
removePendingSaves(storage) == [storage EXCEPT !.pendingSaves = <<>>]

\* Line 252: pendingSaves.sort((a, b) => a.timestamp - b.timestamp), a
\* stable sort.
InsertByTimestamp(sorted, entry) ==
    LET before == {k \in 1..Len(sorted) : sorted[k].timestamp <= entry.timestamp}
        at == IF before = {} THEN 0
              ELSE CHOOSE k \in before : \A j \in before : j <= k
    IN  SubSeq(sorted, 1, at) \o <<entry>> \o SubSeq(sorted, at + 1, Len(sorted))

RECURSIVE SortByTimestamp(_)
SortByTimestamp(saves) ==
    IF saves = <<>> THEN <<>>
    ELSE InsertByTimestamp(SortByTimestamp(SubSeq(saves, 1, Len(saves) - 1)),
                           saves[Len(saves)])

\* Lines 244-265: processPendingSaves() has sorted the queue and waits for
\* the response to the push of its first entry.
FlushCall(sorted, caller) ==
    [pc |-> "flush", i |-> 0, body |-> <<sorted[1].data>>, caller |-> caller]

\* Lines 3922-3932: saveFlashcardsToServer() waits for the response to the
\* push of the Card Store as it is now.
SendCall(cards) ==
    [pc |-> "send", i |-> 0, body |-> <<ToJSON(cards)>>, caller |-> "save"]

\* Mutant of RemainingSaves: the entry whose push failed is dropped too.
RemainingSavesAfterFailed(saves, i) == SubSeq(saves, i + 2, Len(saves))

\* Line 271: pendingSaves.slice(i), i counted from 0.
RemainingSaves(saves, i) == SubSeq(saves, i + 1, Len(saves))

\* processPendingSaves() has returned: saveFlashcardsToServer, when it was
\* the caller, goes on to push the Card Store (lines 3919-3932).
Returned(bag, task, cards) ==
    IF task.caller = "save" THEN GoOn(bag, task, SendCall(cards))
    ELSE Finish(bag, task)

\* The 'offline' event, lines 230-232.
offlineEvent ==
    /\ UNCHANGED <<exitTimer, autoAdvanceTimer, answerHidden, isSyncing, syncTasks>>
    /\ online
    /\ online' = FALSE
    /\ last' = [NoLast EXCEPT !.op = "offlineEvent"]
    /\ UNCHANGED <<allFlashcards, currentPageId, currentCardIndex, currentView,
                   studySession, studyScreen, userStudyStats, localStorage, now,
                   pendingSaves, tasks, delivered>>

\* The 'online' event, line 229: processPendingSaves is its listener, and
\* runs up to its first push (lines 243-265).
onlineEvent ==
    /\ UNCHANGED <<exitTimer, autoAdvanceTimer, answerHidden, isSyncing, syncTasks>>
    /\ ~online
    /\ BagCardinality(tasks) < MaxTasks
    /\ online' = TRUE
    /\ IF pendingSaves = <<>>
       THEN UNCHANGED <<pendingSaves, tasks>>
       ELSE \E sorted \in {SortByTimestamp(pendingSaves)} :
                /\ pendingSaves' = sorted
                /\ tasks' = tasks (+) SetToBag({FlushCall(sorted, "event")})
    /\ last' = [NoLast EXCEPT !.op = "onlineEvent"]
    /\ UNCHANGED <<allFlashcards, currentPageId, currentCardIndex, currentView,
                   studySession, studyScreen, userStudyStats, localStorage, now,
                   delivered>>

\* checkAuthStatus(), lines 869-886, answers the saveFlashcardsToServer()
\* that called it: anything but an OK response of a signed-in user comes
\* back as {authenticated: false}, and the caller returns (line 3904).
checkAuthStatus(task, outcome) ==
    /\ UNCHANGED <<exitTimer, autoAdvanceTimer, answerHidden, isSyncing, syncTasks>>
    /\ BagIn(task, tasks)
    /\ task.pc = "auth"
    /\ tasks' = IF outcome = "ok"
                THEN GoOn(tasks, task, [task EXCEPT !.pc = "authed"])
                ELSE Finish(tasks, task)
    /\ last' = [NoLast EXCEPT !.op = "checkAuthStatus", !.task = <<task>>,
                              !.outcome = outcome, !.day = now]
    /\ UNCHANGED <<allFlashcards, currentPageId, currentCardIndex, currentView,
                   studySession, studyScreen, userStudyStats, localStorage, now,
                   pendingSaves, online, delivered>>

\* saveFlashcardsToServer(), lines 3906-3932, once the user is known to be
\* signed in: offline the Card Store is queued; otherwise the queue is
\* flushed first when it holds entries, and the Card Store is pushed.
saveFlashcardsToServer(task) ==
    /\ UNCHANGED <<exitTimer, autoAdvanceTimer, answerHidden, isSyncing, syncTasks>>
    /\ BagIn(task, tasks)
    /\ task.pc = "authed"
    /\ IF ~online
       THEN \E saves \in {Append(pendingSaves, QueuedSave(allFlashcards, now))} :
                /\ pendingSaves' = saves
                /\ localStorage' = setPendingSaves(localStorage, saves)
                /\ tasks' = Finish(tasks, task)
       ELSE IF pendingSaves # <<>>
       THEN \E sorted \in {SortByTimestamp(pendingSaves)} :
                /\ pendingSaves' = sorted
                /\ tasks' = GoOn(tasks, task, FlushCall(sorted, "save"))
                /\ UNCHANGED localStorage
       ELSE /\ tasks' = GoOn(tasks, task, SendCall(allFlashcards))
            /\ UNCHANGED <<pendingSaves, localStorage>>
    /\ last' = [NoLast EXCEPT !.op = "saveFlashcardsToServer", !.task = <<task>>,
                              !.day = now]
    /\ UNCHANGED <<allFlashcards, currentPageId, currentCardIndex, currentView,
                   studySession, studyScreen, userStudyStats, now, online,
                   delivered>>

\* processPendingSaves(), lines 254-282: the response to the push of entry
\* i arrives.  OK: the loop goes on to the next entry, or empties the queue
\* when there is none.  Otherwise the entries from i on are kept.
processPendingSaves(task, outcome) ==
    /\ UNCHANGED <<exitTimer, autoAdvanceTimer, answerHidden, isSyncing, syncTasks>>
    /\ BagIn(task, tasks)
    /\ task.pc = "flush"
    /\ IF outcome = "ok"
       THEN /\ delivered' = delivered \cup {task.body[1]}
            /\ IF task.i + 1 < Len(pendingSaves)
               THEN /\ tasks' = GoOn(tasks, task,
                                     [task EXCEPT !.i = @ + 1,
                                         !.body = <<pendingSaves[task.i + 2].data>>])
                    /\ UNCHANGED <<pendingSaves, localStorage>>
               ELSE /\ pendingSaves' = <<>>
                    /\ localStorage' = removePendingSaves(localStorage)
                    /\ tasks' = Returned(tasks, task, allFlashcards)
       ELSE \E saves \in {RemainingSaves(pendingSaves, task.i)} :
                /\ pendingSaves' = saves
                /\ localStorage' = setPendingSaves(localStorage, saves)
                /\ tasks' = Returned(tasks, task, allFlashcards)
                /\ UNCHANGED delivered
    /\ last' = [NoLast EXCEPT !.op = "processPendingSaves", !.task = <<task>>,
                              !.outcome = outcome, !.day = now]
    /\ UNCHANGED <<allFlashcards, currentPageId, currentCardIndex, currentView,
                   studySession, studyScreen, userStudyStats, now, online>>

\* saveFlashcardsToServer(), lines 3934-3952: the response to the push of
\* the Card Store arrives.  A failure is queued only when navigator.onLine
\* is false by then: the exceptions of fetch and the Error of line 3935 are
\* not named 'NetworkError'.
saveResponse(task, outcome) ==
    /\ UNCHANGED <<exitTimer, autoAdvanceTimer, answerHidden, isSyncing, syncTasks>>
    /\ BagIn(task, tasks)
    /\ task.pc = "send"
    /\ tasks' = Finish(tasks, task)
    /\ IF outcome = "ok"
       THEN /\ delivered' = delivered \cup {task.body[1]}
            /\ UNCHANGED <<pendingSaves, localStorage>>
       ELSE IF ~online
       THEN \E saves \in {Append(pendingSaves, QueuedSave(allFlashcards, now))} :
                /\ pendingSaves' = saves
                /\ localStorage' = setPendingSaves(localStorage, saves)
                /\ UNCHANGED delivered
       ELSE UNCHANGED <<pendingSaves, localStorage, delivered>>
    /\ last' = [NoLast EXCEPT !.op = "saveResponse", !.task = <<task>>,
                              !.outcome = outcome, !.day = now]
    /\ UNCHANGED <<allFlashcards, currentPageId, currentCardIndex, currentView,
                   studySession, studyScreen, userStudyStats, now, online>>

(***************************************************************************)
(* answerCard(rating), lines 2469-2523: the rating buttons and keys of the *)
(* cards view.                                                             *)
(***************************************************************************)
\* The reviews that are followed: up to MaxReviews from the first one, and
\* as many on either side of the review that fills the history.
MoreReviews(stats) ==
    \/ stats.totalReviews < MaxReviews
    \/ /\ stats.totalReviews >= HISTORY_CAP - MaxReviews
       /\ stats.totalReviews < HISTORY_CAP + MaxReviews

\* answerCard(rating), lines 2469-2524, past its two early returns; op names
\* the caller in the ghost.
answerCardOf(rating, op) ==
    /\ currentPageId \in DOMAIN allFlashcards
    /\ currentCardIndex < Len(allFlashcards[currentPageId])
    /\ LET cards == allFlashcards[currentPageId]
           card == cards[currentCardIndex + 1]
           rated == applySpacedRepetition(card, rating, now)
           store == [allFlashcards EXCEPT
                        ![currentPageId] = [cards EXCEPT ![currentCardIndex + 1] = rated]]
           stats == recordCardReview(userStudyStats, store, currentCardIndex,
                                     currentPageId, rating, now)
           ghost == [NoLast EXCEPT !.op = op, !.pageId = currentPageId,
                                   !.cardIndex = currentCardIndex,
                                   !.rating = rating, !.before = <<card>>,
                                   !.day = now]
       IN  IF applySpacedRepetitionThrows(card, rating)
           THEN \* The RangeError is not caught: the handler ends at line 2479
                \* with the card as applySpacedRepetition left it.
                /\ rated.reviewCount <= MaxReviewCount
                /\ allFlashcards' = store
                /\ last' = [ghost EXCEPT !.outcome = "RangeError"]
                /\ UNCHANGED <<userStudyStats, localStorage, currentCardIndex,
                               tasks, answerHidden>>
           ELSE /\ MoreReviews(userStudyStats)
                /\ BagCardinality(tasks) < MaxTasks
                /\ allFlashcards' = store
                /\ userStudyStats' = stats
                /\ localStorage' = saveFlashcardsToLocalStorage(
                                       saveStudyStats(localStorage, stats), store)
                /\ answerHidden' = TRUE
                /\ currentCardIndex' = IF currentCardIndex < Len(cards) - 1
                                       THEN currentCardIndex + 1 ELSE 0
                /\ last' = ghost
                /\ tasks' = tasks (+) SetToBag({SaveCall})
    /\ UNCHANGED <<currentPageId, currentView, studySession, studyScreen, now,
                   pendingSaves, online, delivered>>

\* The rating buttons and keys of the cards view (lines 1117-1135, 1564).
answerCard(rating) ==
    /\ UNCHANGED <<exitTimer, autoAdvanceTimer, isSyncing, syncTasks>>
    /\ currentView = "cards"
    /\ answerCardOf(rating, "answerCard")

\* toggleAnswer(), lines 2440-2466: the toggle button and the space key of
\* the cards view.
toggleAnswer ==
    /\ currentView = "cards"
    /\ currentPageId \in DOMAIN allFlashcards
    /\ answerHidden' = ~answerHidden
    /\ last' = [NoLast EXCEPT !.op = "toggleAnswer"]
    /\ UNCHANGED <<allFlashcards, currentPageId, currentCardIndex, currentView,
                   studySession, studyScreen, userStudyStats, localStorage, now,
                   exitTimer, autoAdvanceTimer>>
    /\ UNCHANGED pushVars
    /\ UNCHANGED syncVars

\* startAutoAdvance(), lines 2526-2568: the auto-advance checkbox of the
\* cards view is ticked; a timer that was running is replaced.
startAutoAdvance ==
    /\ currentView = "cards"
    /\ currentPageId \in DOMAIN allFlashcards
    /\ allFlashcards[currentPageId] # <<>>
    /\ ~autoAdvanceTimer
    /\ autoAdvanceTimer' = TRUE
    /\ last' = [NoLast EXCEPT !.op = "startAutoAdvance"]
    /\ UNCHANGED <<allFlashcards, currentPageId, currentCardIndex, currentView,
                   studySession, studyScreen, userStudyStats, localStorage, now,
                   exitTimer, answerHidden>>
    /\ UNCHANGED pushVars
    /\ UNCHANGED syncVars

\* stopAutoAdvance(), lines 2571-2576: the checkbox is cleared.
stopAutoAdvance ==
    /\ currentView = "cards"
    /\ autoAdvanceTimer
    /\ autoAdvanceTimer' = FALSE
    /\ last' = [NoLast EXCEPT !.op = "stopAutoAdvance"]
    /\ UNCHANGED <<allFlashcards, currentPageId, currentCardIndex, currentView,
                   studySession, studyScreen, userStudyStats, localStorage, now,
                   exitTimer, answerHidden>>
    /\ UNCHANGED pushVars
    /\ UNCHANGED syncVars

\* The callback of the interval timer, lines 2535-2567, with spaced
\* repetition in use as by default (line 302): a hidden answer is shown, and
\* with the answer showing the card is answered 'good'.  answerCard returns
\* at once when no deck is open or the cursor is past its cards.
autoAdvanceTick ==
    /\ autoAdvanceTimer
    /\ UNCHANGED <<exitTimer, autoAdvanceTimer, isSyncing, syncTasks>>
    /\ IF answerHidden
       THEN /\ answerHidden' = FALSE
            /\ last' = [NoLast EXCEPT !.op = "autoAdvanceTick"]
            /\ UNCHANGED <<allFlashcards, currentPageId, currentCardIndex,
                           currentView, studySession, studyScreen, userStudyStats,
                           localStorage, now>>
            /\ UNCHANGED pushVars
       ELSE IF currentPageId \in DOMAIN allFlashcards
               /\ currentCardIndex < Len(allFlashcards[currentPageId])
       THEN answerCardOf("good", "autoAdvanceTick")
       ELSE /\ last' = [NoLast EXCEPT !.op = "autoAdvanceTick"]
            /\ UNCHANGED <<allFlashcards, currentPageId, currentCardIndex,
                           currentView, studySession, studyScreen, userStudyStats,
                           localStorage, now, answerHidden>>
            /\ UNCHANGED pushVars

\* A day passes.
Tick ==
    /\ UNCHANGED <<exitTimer, autoAdvanceTimer, answerHidden, isSyncing, syncTasks>>
    /\ now < MaxNow
    /\ now' = now + 1
    /\ last' = [NoLast EXCEPT !.op = "Tick"]
    /\ UNCHANGED <<allFlashcards, currentPageId, currentCardIndex, currentView,
                   studySession, studyScreen, userStudyStats, localStorage>>
    /\ UNCHANGED pushVars

\* Lines 21-25 and 217-221: a session without a start time.
NoSession == [active |-> FALSE, queue |-> <<>>, currentIndex |-> 0,
              startTime |-> <<>>]

\* Lines 373-382: the statistics loadStudyStats starts from.
NoStats == [cardsStudied |-> 0, totalReviews |-> 0, correctReviews |-> 0,
            studyTimeMinutes |-> 0, streakDays |-> 0, lastStudyDate |-> Null,
            reviewHistory |-> <<>>, deckStats |-> <<>>]

(***************************************************************************)
(* The payload of GET /api/flashcards: deck id -> cards.  A property of an *)
(* incoming card that the payload does not carry is <<>>, one it carries   *)
(* is <<value>>.                                                           *)
(***************************************************************************)
MaxCards == 2

PlainCard(q) ==
    [question |-> q, interval |-> <<>>, ease |-> <<>>, due |-> <<>>,
     reviewCount |-> <<>>, tags |-> <<>>, suspended |-> <<>>]

\* A card that carries scheduling fields of its own, among them due: null.
ScheduledCard(q) ==
    [PlainCard(q) EXCEPT !.interval = <<4>>, !.ease = <<(<<2, 1>>)>>,
                         !.due = <<Null>>, !.reviewCount = <<2>>]

\* What GET /api/flashcards answers as pages are synced on the server: the
\* decks of the pages synced so far, each with the cards generated from the
\* page's text at its last sync.
Payloads ==
    { <<>>,
      [p \in {"p1"} |-> <<PlainCard("q1"), PlainCard("q2")>>],
      [p \in {"p1"} |-> <<PlainCard("q1")>>],
      [p \in {"p1"} |-> <<ScheduledCard("q1")>>],
      [p \in Decks |-> IF p = "p1" THEN <<PlainCard("q1"), PlainCard("q2")>>
                       ELSE <<PlainCard("q1")>>],
      [p \in Decks |-> IF p = "p1" THEN <<>> ELSE <<PlainCard("q1")>>] }

\* The payload carries no scheduling fields, tags or suspension: what the
\* server of src/app.js stores for a page.
PlainPayload(payload) ==
    \A p \in DOMAIN payload : \A i \in 1..Len(payload[p]) :
        payload[p][i] = PlainCard(payload[p][i].question)

PlainPayloads == {payload \in Payloads : PlainPayload(payload)}

\* The payloads that hold the deck of page p1 alone, or nothing.
FirstPagePayloads == {payload \in Payloads : DOMAIN payload \subseteq {"p1"}}

\* field !== undefined ? field : fallback
Carried(field, fallback) == IF field # <<>> THEN field[1] ELSE fallback

\* value || fallback, on a number.
OrElse(v, fallback) == IF Falsy(v) THEN fallback ELSE v

\* due || null: a date string is truthy.
DueOrNull(due) == IF due \in {Undefined, Null} THEN Null ELSE due

\* ease || EASE_FACTOR_DEFAULT
EaseOrDefault(e) == IF EaseFalsy(e) THEN EASE_FACTOR_DEFAULT ELSE e

\* Lines 1826-1831: existingCardsByQuestion[question], the last local card
\* with that question, as <<card>>, or <<>>.
existingCardsByQuestion(cards, question) ==
    LET found == {i \in 1..Len(cards) : cards[i].question = question}
    IN  IF found = {} THEN <<>>
        ELSE <<cards[CHOOSE i \in found : \A j \in found : j <= i]>>

\* Mutant of MergeMatched: the incoming card is taken with default fields.
MergeMatchedAsNew(serverCard, existing) ==
    [question |-> serverCard.question,
     interval |-> OrElse(Carried(serverCard.interval, Undefined), 0),
     ease |-> EaseOrDefault(Carried(serverCard.ease, <<>>)),
     due |-> DueOrNull(Carried(serverCard.due, Undefined)),
     reviewCount |-> OrElse(Carried(serverCard.reviewCount, Undefined), 0),
     tags |-> Carried(serverCard.tags, {}),
     suspended |-> Carried(serverCard.suspended, FALSE)]

\* Lines 1839-1846: an incoming card whose question a local card has.
MergeMatched(serverCard, existing) ==
    [question |-> serverCard.question,
     interval |-> Carried(serverCard.interval, OrElse(existing.interval, 0)),
     ease |-> Carried(serverCard.ease, EaseOrDefault(existing.ease)),
     due |-> Carried(serverCard.due, DueOrNull(existing.due)),
     reviewCount |-> Carried(serverCard.reviewCount, OrElse(existing.reviewCount, 0)),
     tags |-> Carried(serverCard.tags, existing.tags),
     suspended |-> Carried(serverCard.suspended, existing.suspended)]

\* Lines 1848-1854 (and 1866-1871, 1882-1887): a card new to the store.
InitializeCard(serverCard) ==
    [question |-> serverCard.question,
     interval |-> OrElse(Carried(serverCard.interval, Undefined), 0),
     ease |-> EaseOrDefault(Carried(serverCard.ease, <<>>)),
     due |-> DueOrNull(Carried(serverCard.due, Undefined)),
     reviewCount |-> OrElse(Carried(serverCard.reviewCount, Undefined), 0),
     tags |-> Carried(serverCard.tags, {}),
     suspended |-> Carried(serverCard.suspended, FALSE)]

\* Lines 1833-1861: the cards of a deck the store already holds.  The new
\* array holds one card per incoming card and nothing else.
MergeDeck(local, incoming) ==
    [i \in 1..Len(incoming) |->
        LET existingData == existingCardsByQuestion(local, incoming[i].question)
        IN  IF existingData # <<>>
            THEN MergeMatched(incoming[i], existingData[1])
            ELSE InitializeCard(incoming[i])]

\* Lines 1815-1896: the Card Store after the payload is merged into it.
MergeStore(store, payload) ==
    IF DOMAIN store # {}
    THEN [p \in DOMAIN store \cup DOMAIN payload |->
            IF p \notin DOMAIN payload THEN store[p]
            ELSE IF p \in DOMAIN store THEN MergeDeck(store[p], payload[p])
            ELSE [i \in 1..Len(payload[p]) |-> InitializeCard(payload[p][i])]]
    ELSE [p \in DOMAIN payload |->
            [i \in 1..Len(payload[p]) |-> InitializeCard(payload[p][i])]]

(***************************************************************************)
(* loadFlashcards(), lines 1794-1928, when the fetch answers with payload; *)
(* called by syncSection and fullSync once the server has synced.          *)
(***************************************************************************)
loadFlashcardsOk(payload) ==
    /\ online
    /\ \E store \in {MergeStore(allFlashcards, payload)} :
          /\ allFlashcards' = store
          /\ localStorage' = saveFlashcardsToLocalStorage(localStorage, store)
    /\ last' = [NoLast EXCEPT !.op = "loadFlashcards", !.payload = payload,
                              !.day = now]
    /\ UNCHANGED <<currentPageId, currentCardIndex, currentView, studySession,
                   studyScreen, userStudyStats, now>>
    /\ UNCHANGED pushVars

\* loadFlashcards() when no sync of this page is what called it.
loadFlashcards(payload) ==
    /\ UNCHANGED <<exitTimer, autoAdvanceTimer, answerHidden, isSyncing, syncTasks>>
    /\ loadFlashcardsOk(payload)

\* Mutant of StoreAfterFailedFetch: a failed fetch leaves an empty store.
StoreAfterFailedFetchEmpty(store) == <<>>

\* Lines 1799-1807 and 1923-1927: the fetch throws, or its response is not
\* OK and the handler throws, before allFlashcards is read or written; the
\* catch block rethrows.
StoreAfterFailedFetch(store) == store

\* loadFlashcards(), lines 1794-1928, when its fetch fails: outcome is
\* "status" for a response that is not OK, "throw" for a network error.
loadFlashcardsThrows(outcome) ==
    /\ outcome \in FetchOutcomes(online) \ {"ok"}
    /\ allFlashcards' = StoreAfterFailedFetch(allFlashcards)
    /\ last' = [NoLast EXCEPT !.op = "loadFlashcards", !.outcome = outcome,
                              !.day = now]
    /\ UNCHANGED <<currentPageId, currentCardIndex, currentView, studySession,
                   studyScreen, userStudyStats, localStorage, now>>
    /\ UNCHANGED pushVars

\* The failed fetch when no sync of this page is what called loadFlashcards.
loadFlashcardsFailed(outcome) ==
    /\ UNCHANGED <<exitTimer, autoAdvanceTimer, answerHidden, isSyncing, syncTasks>>
    /\ loadFlashcardsThrows(outcome)

(***************************************************************************)
(* syncSection (lines 2661-2734) and fullSync (lines 2737-2819) are async: *)
(* a call runs up to its await of the sync request, waits in syncTasks for *)
(* the response, and after a successful one waits again for the fetch of   *)
(* loadFlashcards.  No await lies between the test of isSyncing and the    *)
(* assignment that sets it.                                                *)
(***************************************************************************)
SyncKinds == {"syncSection", "fullSync"}

\* The syncs that may wait at once if nothing refuses them.
MaxSyncs == 2

\* Mutant of SyncRefused: a sync is started whatever the flag says.
SyncRefusedNever(syncing) == FALSE

\* Lines 2662-2665 and 2738-2741: if (isSyncing) { ...; return; }
SyncRefused(syncing) == syncing

\* Lines 2667-2680 and 2748-2764: up to the await of the sync request.
startSync(kind, confirmed) ==
    /\ UNCHANGED <<exitTimer, autoAdvanceTimer, answerHidden>>
    /\ BagCardinality(syncTasks) < MaxSyncs
    /\ IF SyncRefused(isSyncing)
       THEN /\ last' = [NoLast EXCEPT !.op = kind, !.outcome = "refused",
                          !.notification =
                              "Sync already in progress. Please wait."]
            /\ UNCHANGED syncVars
       ELSE IF ~confirmed
       THEN /\ last' = [NoLast EXCEPT !.op = kind, !.outcome = "declined"]
            /\ UNCHANGED syncVars
       ELSE /\ isSyncing' = TRUE
            /\ syncTasks' = syncTasks (+) SetToBag({[kind |-> kind,
                                                     pc |-> "sync"]})
            /\ last' = [NoLast EXCEPT !.op = kind, !.outcome = "started"]
    /\ UNCHANGED <<allFlashcards, currentPageId, currentCardIndex, currentView,
                   studySession, studyScreen, userStudyStats, localStorage,
                   now>>
    /\ UNCHANGED pushVars

\* syncSection(notebookId, sectionId): the Quick Sync button.
syncSection == startSync("syncSection", TRUE)

\* fullSync(notebookId, sectionId): the Full Sync button; confirmed is the
\* answer to confirm() of line 2744.
fullSync(confirmed) == startSync("fullSync", confirmed)

(***************************************************************************)
(* The response to the sync request arrives (lines 2682-2727 and           *)
(* 2766-2811): "ok" carries success, and the call goes on to await         *)
(* loadFlashcards; "failed" is an OK response without success, "status" a  *)
(* response that is not OK, "throw" a network error, and each of the three *)
(* ends the call through its finally block, lines 2726-2728 and 2809-2812. *)
(***************************************************************************)
syncResponse(task, outcome) ==
    /\ UNCHANGED <<exitTimer, autoAdvanceTimer, answerHidden>>
    /\ task \in BagToSet(syncTasks)
    /\ task.pc = "sync"
    /\ outcome \in FetchOutcomes(online) \cup
                       (IF online THEN {"failed"} ELSE {})
    /\ IF outcome = "ok"
       THEN /\ syncTasks' = GoOn(syncTasks, task, [task EXCEPT !.pc = "load"])
            /\ UNCHANGED isSyncing
       ELSE /\ syncTasks' = Finish(syncTasks, task)
            /\ isSyncing' = FALSE
    /\ last' = [NoLast EXCEPT !.op = task.kind, !.outcome = outcome,
                  !.notification =
                      IF outcome = "ok" THEN ""
                      ELSE IF outcome = "failed"
                      THEN "Sync failed. Please try again."
                      ELSE "Failed to sync. Please try again."]
    /\ UNCHANGED <<allFlashcards, currentPageId, currentCardIndex, currentView,
                   studySession, studyScreen, userStudyStats, localStorage,
                   now>>
    /\ UNCHANGED pushVars

\* Lines 2700-2712 and 2786-2798, then the finally block: the fetch of the
\* awaited loadFlashcards answers with payload, and the sync ends.
syncLoaded(task, payload) ==
    /\ UNCHANGED <<exitTimer, autoAdvanceTimer, answerHidden>>
    /\ task \in BagToSet(syncTasks)
    /\ task.pc = "load"
    /\ loadFlashcardsOk(payload)
    /\ syncTasks' = Finish(syncTasks, task)
    /\ isSyncing' = FALSE

\* The awaited loadFlashcards rethrows its failed fetch: the catch block of
\* the sync, then its finally block.
syncLoadFailed(task, outcome) ==
    /\ UNCHANGED <<exitTimer, autoAdvanceTimer, answerHidden>>
    /\ task \in BagToSet(syncTasks)
    /\ task.pc = "load"
    /\ loadFlashcardsThrows(outcome)
    /\ syncTasks' = Finish(syncTasks, task)
    /\ isSyncing' = FALSE

\* showView(viewName), lines 77-111: the navigation links and back buttons.
showView(viewName) ==
    /\ UNCHANGED <<exitTimer, autoAdvanceTimer, answerHidden, isSyncing, syncTasks>>
    /\ currentView # viewName
    /\ currentView' = viewName
    /\ last' = [NoLast EXCEPT !.op = "showView"]
    /\ UNCHANGED <<allFlashcards, currentPageId, currentCardIndex, studySession,
                   studyScreen, userStudyStats, localStorage, now>>
    /\ UNCHANGED pushVars

\* selectPage(pageId), lines 2158-2203: a deck of the pages list is opened.
selectPage(pageId) ==
    /\ UNCHANGED <<exitTimer, autoAdvanceTimer, isSyncing, syncTasks>>
    /\ answerHidden' = TRUE
    /\ pageId \in DOMAIN allFlashcards
    /\ currentPageId' = pageId
    /\ currentCardIndex' = 0
    /\ currentView' = "cards"
    /\ last' = [NoLast EXCEPT !.op = "selectPage", !.pageId = pageId]
    /\ UNCHANGED <<allFlashcards, studySession, studyScreen, userStudyStats,
                   localStorage, now>>
    /\ UNCHANGED pushVars

\* Lines 3266-3276: the card saveNewCard creates.
NewCard(question, tags) ==
    [question |-> question, tags |-> tags, interval |-> 0,
     ease |-> EASE_FACTOR_DEFAULT, due |-> Null, reviewCount |-> 0,
     suspended |-> FALSE]

\* saveNewCard(), lines 3239-3311, with the question and tags typed in.
saveNewCard(question, tags) ==
    /\ UNCHANGED <<exitTimer, autoAdvanceTimer, isSyncing, syncTasks>>
    /\ answerHidden' = IF currentView = "cards" THEN TRUE ELSE answerHidden
    /\ currentPageId \in DOMAIN allFlashcards
    /\ Len(allFlashcards[currentPageId]) < MaxCards
    /\ BagCardinality(tasks) < MaxTasks
    /\ LET store == [allFlashcards EXCEPT
                        ![currentPageId] = Append(@, NewCard(question, tags))]
       IN  /\ allFlashcards' = store
           /\ localStorage' = saveFlashcardsToLocalStorage(localStorage, store)
           /\ currentCardIndex' = IF currentView = "cards"
                                  THEN Len(store[currentPageId]) - 1
                                  ELSE currentCardIndex
    /\ last' = [NoLast EXCEPT !.op = "saveNewCard", !.pageId = currentPageId]
    /\ tasks' = tasks (+) SetToBag({SaveCall})
    /\ UNCHANGED <<currentPageId, currentView, studySession, studyScreen,
                   userStudyStats, now, pendingSaves, online, delivered>>

\* openCardEditor(currentPageId, currentCardIndex), lines 1181 and
\* 3203-3219: the edit button of the cards view.
openCardEditor ==
    /\ UNCHANGED <<exitTimer, autoAdvanceTimer, answerHidden, isSyncing, syncTasks>>
    /\ currentView = "cards"
    /\ currentPageId \in DOMAIN allFlashcards
    /\ currentCardIndex < Len(allFlashcards[currentPageId])
    /\ currentView' = "editor"
    /\ last' = [NoLast EXCEPT !.op = "openCardEditor", !.pageId = currentPageId,
                              !.cardIndex = currentCardIndex]
    /\ UNCHANGED <<allFlashcards, currentPageId, currentCardIndex, studySession,
                   studyScreen, userStudyStats, localStorage, now>>
    /\ UNCHANGED pushVars

\* Lines 3339-3342: the card with the question and tags typed in.
EditedCard(card, question, tags) ==
    [card EXCEPT !.question = question, !.tags = tags]

\* saveCardEdits(), lines 3313-3355, with the question and tags typed in.
saveCardEdits(question, tags) ==
    /\ UNCHANGED <<exitTimer, autoAdvanceTimer, isSyncing, syncTasks>>
    /\ currentView = "editor"
    /\ IF currentPageId \in DOMAIN allFlashcards
          /\ currentCardIndex < Len(allFlashcards[currentPageId])
       THEN /\ BagCardinality(tasks) < MaxTasks
            /\ answerHidden' = TRUE
            /\ LET store == [allFlashcards EXCEPT
                                ![currentPageId][currentCardIndex + 1] =
                                    EditedCard(@, question, tags)]
               IN  /\ allFlashcards' = store
                   /\ localStorage' = saveFlashcardsToLocalStorage(localStorage, store)
            /\ tasks' = tasks (+) SetToBag({SaveCall})
       ELSE \* The card is gone: the editor is closed and nothing is saved.
            UNCHANGED <<allFlashcards, localStorage, tasks, answerHidden>>
    /\ currentView' = "cards"
    /\ last' = [NoLast EXCEPT !.op = "saveCardEdits", !.pageId = currentPageId,
                              !.cardIndex = currentCardIndex]
    /\ UNCHANGED <<currentPageId, currentCardIndex, studySession, studyScreen,
                   userStudyStats, now, pendingSaves, online, delivered>>

\* Lines 3141-3166: what a batch edit makes of one card.
BatchEditedCard(card, addTags, removeTags, suspend) ==
    [card EXCEPT !.tags = (@ \cup addTags) \ removeTags,
                 !.suspended = IF suspend THEN TRUE ELSE @]

\* applyBatchEdits(), lines 3116-3194, on the decks ticked in the pages list
\* and with the tags and the suspend switch of the dialog.
applyBatchEdits(pages, addTags, removeTags, suspend) ==
    /\ UNCHANGED <<exitTimer, autoAdvanceTimer, isSyncing, syncTasks>>
    /\ answerHidden' = IF currentPageId \in pages THEN TRUE ELSE answerHidden
    /\ pages # {}
    /\ pages \subseteq DOMAIN allFlashcards
    /\ BagCardinality(tasks) < MaxTasks
    /\ LET store == [p \in DOMAIN allFlashcards |->
                        IF p \in pages
                        THEN [i \in 1..Len(allFlashcards[p]) |->
                                BatchEditedCard(allFlashcards[p][i],
                                                addTags, removeTags, suspend)]
                        ELSE allFlashcards[p]]
       IN  /\ allFlashcards' = store
           /\ localStorage' = saveFlashcardsToLocalStorage(localStorage, store)
    /\ last' = [NoLast EXCEPT !.op = "applyBatchEdits"]
    /\ tasks' = tasks (+) SetToBag({SaveCall})
    /\ UNCHANGED <<currentPageId, currentCardIndex, currentView, studySession,
                   studyScreen, userStudyStats, now, pendingSaves, online,
                   delivered>>

(***************************************************************************)
(* The study session.                                                      *)
(***************************************************************************)
\* Default settings of loadUserSettings, lines 298-307.
newCardsPerDay == 20
reviewsPerDay == 100

\* Object.entries(allFlashcards) visits the decks in this order.
DeckOrder == <<"p1", "p2">>

\* The queue positions {pageId, cardIndex} of one deck, cardIndex 0-based.
DeckEntries(store, pageId) ==
    IF pageId \in DOMAIN store
    THEN [i \in 1..Len(store[pageId]) |-> [pageId |-> pageId, cardIndex |-> i - 1]]
    ELSE <<>>

RECURSIVE StoreEntries(_, _)
StoreEntries(store, k) ==
    IF k > Len(DeckOrder) THEN <<>>
    ELSE DeckEntries(store, DeckOrder[k]) \o StoreEntries(store, k + 1)

CardAt(store, entry) == store[entry.pageId][entry.cardIndex + 1]

\* Mutant of matchesTags: the tag filter lets every card through.
matchesTagsAny(card, tags) == TRUE

\* Lines 3376-3377 and 3409-3410.
matchesTags(card, tags) == tags = {} \/ card.tags \cap tags # {}

\* Line 3374: card.due && new Date(card.due) <= today && !card.suspended.
IsDueCard(card, today) ==
    card.due \notin {Undefined, Null} /\ card.due <= today /\ ~card.suspended

\* Line 3407: !card.due && !card.suspended.
IsNewCard(card) == card.due \in {Undefined, Null} /\ ~card.suspended

\* Mutant of InsertByDue: the entries stay in the order they were collected.
InsertByDueUnsorted(store, sorted, entry) == Append(sorted, entry)

\* reviewCards.sort((a, b) => a.due - b.due), line 3393: a stable sort.
RECURSIVE InsertByDue(_, _, _)
InsertByDue(store, sorted, entry) ==
    IF sorted = <<>> THEN <<entry>>
    ELSE IF CardAt(store, sorted[Len(sorted)]).due <= CardAt(store, entry).due
         THEN Append(sorted, entry)
         ELSE Append(InsertByDue(store, SubSeq(sorted, 1, Len(sorted) - 1), entry),
                     sorted[Len(sorted)])

RECURSIVE SortByDue(_, _)
SortByDue(store, entries) ==
    IF entries = <<>> THEN <<>>
    ELSE InsertByDue(store, SortByDue(store, SubSeq(entries, 1, Len(entries) - 1)),
                     entries[Len(entries)])

\* array.slice(0, end): a negative end counts from the end of the array.
Slice(seq, end) ==
    IF end >= 0 THEN SubSeq(seq, 1, Min(end, Len(seq)))
    ELSE SubSeq(seq, 1, Max(0, Len(seq) + end))

WithType(entries, type) ==
    [i \in 1..Len(entries) |->
        [pageId |-> entries[i].pageId, cardIndex |-> entries[i].cardIndex,
         type |-> type]]

\* Lines 3360-3437: the queue startStudySession builds (new cards in the
\* order of the default setting cardOrderNew = 'due').
StudyQueue(store, today, includeDue, includeNew, limit, tags) ==
    LET all == StoreEntries(store, 1)
        IsReview(e) == IsDueCard(CardAt(store, e), today)
                       /\ matchesTags(CardAt(store, e), tags)
        IsNew(e) == IsNewCard(CardAt(store, e)) /\ matchesTags(CardAt(store, e), tags)
        reviewCards == IF includeDue THEN SortByDue(store, SelectSeq(all, IsReview))
                       ELSE <<>>
        limitedReviewCards == Slice(reviewCards, Min(reviewsPerDay, limit))
        newCards == SelectSeq(all, IsNew)
        limitedNewCards ==
            Slice(newCards, Min(newCardsPerDay, limit - Len(limitedReviewCards)))
    IN  WithType(limitedReviewCards, "review")
        \o (IF includeNew THEN WithType(limitedNewCards, "new") ELSE <<>>)

\* Lines 3488 and 3688: the queue entry still names a card of the store.
IsLive(store, entry) ==
    entry.pageId \in DOMAIN store /\ entry.cardIndex < Len(store[entry.pageId])

\* Mutant of Advance: the cursor stays on the rated card.
AdvanceNone(session) == session

\* Line 3746: studySession.currentIndex++ once the card is rated.
Advance(session) == [session EXCEPT !.currentIndex = @ + 1]

\* Mutant of SkipEntry: the cursor is moved two entries on.
SkipEntryTwice(session) == [session EXCEPT !.currentIndex = @ + 2]

\* Lines 3490 and 3690: studySession.currentIndex++ past a stale entry.
SkipEntry(session) == [session EXCEPT !.currentIndex = @ + 1]

(***************************************************************************)
(* showStudyCard(), lines 3471-3494: the session it leaves, the number of  *)
(* stale entries it skipped (each skip is one recursive call) and what it  *)
(* shows: the card at the cursor, or the completion screen.                *)
(***************************************************************************)
\* Mutant of showStudyCard: after one skip the entry at the cursor is shown
\* without being looked at.
showStudyCardOneSkip(store, session, skipped) ==
    IF session.currentIndex >= Len(session.queue)
    THEN [session |-> session, skipped |-> skipped, screen |-> "completed"]
    ELSE IF ~IsLive(store, session.queue[session.currentIndex + 1])
         THEN [session |-> SkipEntry(session), skipped |-> skipped + 1,
               screen |-> IF session.currentIndex + 1 >= Len(session.queue)
                          THEN "completed" ELSE "card"]
         ELSE [session |-> session, skipped |-> skipped, screen |-> "card"]

RECURSIVE showStudyCard(_, _, _)
showStudyCard(store, session, skipped) ==
    IF session.currentIndex >= Len(session.queue)
    THEN [session |-> session, skipped |-> skipped, screen |-> "completed"]
    ELSE IF ~IsLive(store, session.queue[session.currentIndex + 1])
         THEN showStudyCard(store, SkipEntry(session), skipped + 1)
         ELSE [session |-> session, skipped |-> skipped, screen |-> "card"]

\* The persisted session after showStudyCard: saved at every skip.
StorageAfterShow(storage, shown) ==
    IF shown.skipped > 0 THEN saveStudySession(storage, shown.session) ELSE storage

\* The minutes of a day: the clock of the model counts days, line 3774
\* counts minutes.
MinutesPerDay == 1440

\* Lines 3773-3774: Math.round((endTime - startTime) / 60000).  startTime is
\* the Date of line 3450, or the string JSON.parse made of it, and a Date
\* less a date string is NaN.
StudyMinutes(startTime, today) ==
    IF startTime[1] = "Date" THEN (today - startTime[2]) * MinutesPerDay ELSE NaN

\* showStudyCompletion(), lines 3756-3805, on the statistics: with a start
\* time the minutes are added to (studyTimeMinutes || 0).
showStudyCompletion(stats, session, today) ==
    IF session.startTime # <<>>
    THEN LET studyMinutes == StudyMinutes(session.startTime, today)
         IN  [stats EXCEPT !.studyTimeMinutes =
                 IF studyMinutes = NaN THEN NaN
                 ELSE (IF Falsy(@) THEN 0 ELSE @) + studyMinutes]
    ELSE stats

\* The statistics after showStudyCard: line 3477 calls showStudyCompletion
\* when the cursor is at the end of the queue.
StatsAfterShow(stats, shown, today) ==
    IF shown.screen = "completed"
    THEN showStudyCompletion(stats, shown.session, today) ELSE stats

\* Line 3779: showStudyCompletion saves the statistics when the session has
\* a start time.
StorageAfterCompletion(storage, shown, stats) ==
    IF shown.screen = "completed" /\ shown.session.startTime # <<>>
    THEN saveStudyStats(storage, stats) ELSE storage

(***************************************************************************)
(* startStudySession(includeDue, includeNew, limit, tags), lines           *)
(* 3359-3459.                                                              *)
(***************************************************************************)
\* Mutant of NothingToStudy: an empty queue is studied as any other.
NothingToStudyNever(studyQueue) == FALSE

\* Line 3440: studyQueue.length === 0.
NothingToStudy(studyQueue) == studyQueue = <<>>

startStudySession(includeDue, includeNew, limit, tags) ==
    \E studyQueue \in {StudyQueue(allFlashcards, now, includeDue, includeNew,
                                   limit, tags)} :
    LET session == [active |-> TRUE, queue |-> studyQueue, currentIndex |-> 0,
                    startTime |-> <<"Date", now>>]
        shown == showStudyCard(allFlashcards, session, 0)
        stats == StatsAfterShow(userStudyStats, shown, now)
    IN  /\ last' = [NoLast EXCEPT
                       !.op = "startStudySession", !.day = now,
                       !.shown = studyQueue # <<>>,
                       !.skipped = shown.skipped,
                       !.notification =
                           IF NothingToStudy(studyQueue)
                           THEN "No cards to study based on your criteria."
                           ELSE ""]
        /\ IF NothingToStudy(studyQueue)
           THEN UNCHANGED <<studySession, localStorage, currentView, studyScreen,
                            userStudyStats>>
           ELSE /\ studySession' = shown.session
                /\ userStudyStats' = stats
                /\ localStorage' = StorageAfterCompletion(
                                       StorageAfterShow(
                                           saveStudySession(localStorage, session),
                                           shown),
                                       shown, stats)
                /\ currentView' = "study"
                /\ studyScreen' = shown.screen
        /\ UNCHANGED <<allFlashcards, currentPageId, currentCardIndex, now>>
        /\ UNCHANGED pushVars
        /\ UNCHANGED <<exitTimer, autoAdvanceTimer, answerHidden, isSyncing, syncTasks>>

(***************************************************************************)
(* answerStudyCard(rating), lines 3674-3754: the rating buttons and keys   *)
(* of the study view.                                                      *)
(***************************************************************************)
answerStudyCard(rating) ==
    /\ UNCHANGED <<exitTimer, autoAdvanceTimer, answerHidden, isSyncing, syncTasks>>
    /\ currentView = "study"
    /\ LET index == studySession.currentIndex
           queue == studySession.queue
           ghost == [NoLast EXCEPT !.op = "answerStudyCard", !.rating = rating,
                                   !.day = now, !.shownFrom = index]
       IN  IF index >= Len(queue)
           THEN \* "Invalid study session index": nothing is done.
                /\ last' = ghost
                /\ UNCHANGED <<allFlashcards, studySession, studyScreen,
                               userStudyStats, localStorage, tasks>>
           ELSE IF ~IsLive(allFlashcards, queue[index + 1])
           THEN \* "Invalid card, skipping to next".
                LET skippedOne == SkipEntry(studySession)
                    shown == showStudyCard(allFlashcards, skippedOne, 1)
                    stats == StatsAfterShow(userStudyStats, shown, now)
                IN  /\ studySession' = shown.session
                    /\ userStudyStats' = stats
                    /\ localStorage' = StorageAfterCompletion(
                                          StorageAfterShow(
                                              saveStudySession(localStorage,
                                                               skippedOne),
                                              shown),
                                          shown, stats)
                    /\ studyScreen' = shown.screen
                    /\ last' = [ghost EXCEPT !.shown = TRUE,
                                             !.skipped = shown.skipped]
                    /\ UNCHANGED <<allFlashcards, tasks>>
           ELSE IF applySpacedRepetitionThrows(
                       CardAt(allFlashcards, queue[index + 1]), rating)
           THEN \* The RangeError is not caught: the handler ends at line 3707
                \* with the card as applySpacedRepetition left it.
                LET entry == queue[index + 1]
                    card == CardAt(allFlashcards, entry)
                    rated == applySpacedRepetition(card, rating, now)
                IN  /\ rated.reviewCount <= MaxReviewCount
                    /\ allFlashcards' =
                          [allFlashcards EXCEPT
                              ![entry.pageId] =
                                  [@ EXCEPT ![entry.cardIndex + 1] = rated]]
                    /\ last' = [ghost EXCEPT !.pageId = entry.pageId,
                                             !.cardIndex = entry.cardIndex,
                                             !.before = <<card>>,
                                             !.outcome = "RangeError"]
                    /\ UNCHANGED <<studySession, studyScreen, userStudyStats,
                                   localStorage, tasks>>
           ELSE MoreReviews(userStudyStats) /\
                BagCardinality(tasks) < MaxTasks /\
                LET entry == queue[index + 1]
                    card == CardAt(allFlashcards, entry)
                    rated == applySpacedRepetition(card, rating, now)
                    store == [allFlashcards EXCEPT
                                ![entry.pageId] =
                                    [@ EXCEPT ![entry.cardIndex + 1] = rated]]
                    reviewed == recordCardReview(userStudyStats, store,
                                                 entry.cardIndex, entry.pageId,
                                                 rating, now)
                    advanced == Advance(studySession)
                    shown == showStudyCard(store, advanced, 0)
                    stats == StatsAfterShow(reviewed, shown, now)
                IN  /\ allFlashcards' = store
                    /\ userStudyStats' = stats
                    /\ studySession' = shown.session
                    /\ localStorage' =
                          StorageAfterCompletion(
                              StorageAfterShow(
                                  saveStudySession(
                                      saveFlashcardsToLocalStorage(
                                          saveStudyStats(localStorage, reviewed),
                                          store),
                                      advanced),
                                  shown),
                              shown, stats)
                    /\ studyScreen' = shown.screen
                    /\ last' = [ghost EXCEPT !.pageId = entry.pageId,
                                             !.cardIndex = entry.cardIndex,
                                             !.before = <<card>>,
                                             !.shown = TRUE,
                                             !.shownFrom = index + 1,
                                             !.skipped = shown.skipped]
                    /\ tasks' = tasks (+) SetToBag({SaveCall})
    /\ UNCHANGED <<currentPageId, currentCardIndex, currentView, now,
                   pendingSaves, online, delivered>>

\* Mutant of Deactivate: the session is reset, its queue and cursor dropped.
DeactivateAndClear(session) ==
    [active |-> FALSE, queue |-> <<>>, currentIndex |-> 0, startTime |-> <<>>]

\* Line 3816: studySession.active = false.
Deactivate(session) == [session EXCEPT !.active = FALSE]

(***************************************************************************)
(* exitStudyMode(), lines 3808-3858: the exit buttons and the Escape key   *)
(* of the study view.  The session is deactivated and saved at once; the   *)
(* home view is shown by a timer 100 ms later, and until then the study    *)
(* view, its buttons and its keys stay as they are.                        *)
(***************************************************************************)
exitStudyMode ==
    /\ currentView = "study"
    /\ studySession' = Deactivate(studySession)
    /\ localStorage' = saveStudySession(localStorage, Deactivate(studySession))
    /\ exitTimer' = TRUE
    /\ UNCHANGED <<autoAdvanceTimer, answerHidden, isSyncing, syncTasks>>
    /\ last' = [NoLast EXCEPT !.op = "exitStudyMode"]
    /\ UNCHANGED <<allFlashcards, currentPageId, currentCardIndex, currentView,
                   studyScreen, userStudyStats, now>>
    /\ UNCHANGED pushVars

\* The callback of the timer, lines 3841-3856: showView('home').
exitStudyModeTimer ==
    /\ exitTimer
    /\ exitTimer' = FALSE
    /\ UNCHANGED <<autoAdvanceTimer, answerHidden, isSyncing, syncTasks>>
    /\ currentView' = "home"
    /\ last' = [NoLast EXCEPT !.op = "exitStudyModeTimer"]
    /\ UNCHANGED <<allFlashcards, currentPageId, currentCardIndex, studySession,
                   studyScreen, userStudyStats, localStorage, now>>
    /\ UNCHANGED pushVars

(***************************************************************************)
(* init(), lines 158-240, run when the page is loaded: the module-level    *)
(* state is fresh, loadUserData reads the cached Card Store and merges the *)
(* fetched payload into it, loadStudyStats reads the counters, and an      *)
(* interrupted session is offered for resumption.  The user is signed in.  *)
(*   loaded  loadNotebooks succeeded, so loadUserData went on to the cache *)
(*   fetch   <<payload>> when the fetch of loadFlashcards succeeded        *)
(*   resume  the answer to the confirm() of line 212                       *)
(* The result is the state init leaves, as a record of the variables.      *)
(***************************************************************************)
\* Lines 205-211: a session is persisted, active, and its queue holds entries.
ResumeOffered(saved) ==
    saved # <<>> /\ saved[1].active /\ Len(saved[1].queue) > 0

\* Mutant of removeStudySession: a declined session stays persisted.
removeStudySessionKept(storage) == storage

\* Line 216: localStorage.removeItem('studySession').
removeStudySession(storage) == [storage EXCEPT !.studySession = <<>>]

\* JSON.parse(JSON.stringify(stats)): NaN minutes come back as null.
ParseStats(stats) ==
    [stats EXCEPT !.studyTimeMinutes = IF @ = NaN THEN Null ELSE @]

\* JSON.parse(JSON.stringify(session)): the Date comes back as a string.
ParseSession(session) ==
    [session EXCEPT !.startTime = IF @ = <<>> THEN @ ELSE <<"string", @[2]>>]

\* loadStudyStats(), lines 366-401, on day today: the saved statistics or
\* the initial ones, and then updateStudyStreak() (line 388).
loadStudyStats(storage, today) ==
    updateStudyStreak(IF storage.userStudyStats # <<>>
                      THEN ParseStats(storage.userStudyStats[1]) ELSE NoStats,
                      today)

AfterInit(storage, today, loaded, fetch, resume) ==
    LET cached == IF loaded THEN storage.allFlashcards ELSE <<>>
        merged == loaded /\ fetch # <<>>
        store == IF merged THEN MergeStore(cached, fetch[1]) ELSE cached
        loadedStats == loadStudyStats(storage, today)
        storage1 == saveStudyStats(
                        IF merged THEN saveFlashcardsToLocalStorage(storage, store)
                        ELSE storage, loadedStats)
        saved == storage.studySession
        offered == ResumeOffered(saved)
        shown == IF offered THEN showStudyCard(store, ParseSession(saved[1]), 0)
                 ELSE [session |-> NoSession, skipped |-> 0, screen |-> "none"]
        stats == IF offered /\ resume THEN StatsAfterShow(loadedStats, shown, today)
                 ELSE loadedStats
        ghost == [NoLast EXCEPT !.op = "init",
                                !.payload = IF merged THEN fetch[1] ELSE <<>>,
                                !.day = today,
                                !.offered = offered,
                                !.shown = offered /\ resume,
                                !.shownFrom = IF offered /\ resume
                                              THEN saved[1].currentIndex ELSE 0,
                                !.skipped = IF offered /\ resume
                                            THEN shown.skipped ELSE 0]
        common == [allFlashcards |-> store, currentPageId |-> "",
                   currentCardIndex |-> 0, userStudyStats |-> stats, last |-> ghost]
    IN  IF offered /\ resume
        THEN common @@ [currentView |-> "study", studySession |-> shown.session,
                        studyScreen |-> shown.screen,
                        localStorage |-> StorageAfterCompletion(
                                            StorageAfterShow(storage1, shown),
                                            shown, stats)]
        ELSE IF offered
        THEN common @@ [currentView |-> "home", studySession |-> NoSession,
                        studyScreen |-> "none",
                        localStorage |-> removeStudySession(storage1)]
        ELSE common @@ [currentView |-> "home", studySession |-> NoSession,
                        studyScreen |-> "none", localStorage |-> storage1]

Fetches == {<<>>} \cup {<<payload>> : payload \in PlainPayloads}

\* loadUserData(), lines 1673-1685: the retry queue is read back from
\* localStorage and, online, flushed; processPendingSaves is called without
\* await and runs up to its first push.  The calls of the page before are
\* gone with it.
LoadedPendingSaves(storage, loaded, isOnline) ==
    LET stored == IF loaded /\ storage.pendingSaves # <<>>
                  THEN storage.pendingSaves[1] ELSE <<>>
        sorted == SortByTimestamp(stored)
    IN  IF isOnline /\ stored # <<>>
        THEN [pendingSaves |-> sorted,
              tasks |-> SetToBag({FlushCall(sorted, "load")})]
        ELSE [pendingSaves |-> stored, tasks |-> EmptyBag]

\* init() where the fetch of loadFlashcards comes to one of fetches.  Offline
\* neither the sign-in check nor loadNotebooks succeeds.
initWith(fetches) ==
    \E loaded \in IF online THEN BOOLEAN ELSE {FALSE}, resume \in BOOLEAN :
      \E fetch \in IF loaded THEN fetches ELSE {<<>>} :
        \E after \in {AfterInit(localStorage, now, loaded, fetch, resume)},
           queue \in {LoadedPendingSaves(localStorage, loaded, online)} :
            /\ pendingSaves' = queue.pendingSaves
            /\ tasks' = queue.tasks
            /\ UNCHANGED <<online, delivered>>
            /\ allFlashcards' = after.allFlashcards
            /\ currentPageId' = after.currentPageId
            /\ currentCardIndex' = after.currentCardIndex
            /\ currentView' = after.currentView
            /\ studySession' = after.studySession
            /\ studyScreen' = after.studyScreen
            /\ userStudyStats' = after.userStudyStats
            /\ localStorage' = after.localStorage
            /\ last' = after.last
            /\ exitTimer' = FALSE
            /\ autoAdvanceTimer' = FALSE
            /\ answerHidden' = TRUE
            /\ isSyncing' = FALSE
            /\ syncTasks' = EmptyBag
            /\ UNCHANGED now

init == initWith(Fetches)

\* An empty localStorage.
NoStorage == [allFlashcards |-> <<>>, studySession |-> <<>>, userStudyStats |-> <<>>,
              pendingSaves |-> <<>>]

\* Nothing waits to be pushed, and the device is online.
NoPushes ==
    /\ pendingSaves = <<>>
    /\ online = TRUE
    /\ tasks = EmptyBag
    /\ delivered = {}

\* No timer is running and no sync, and the answer of the cards view is
\* hidden as in the page's HTML.
NoTimers ==
    /\ exitTimer = FALSE
    /\ autoAdvanceTimer = FALSE
    /\ answerHidden = TRUE
    /\ isSyncing = FALSE
    /\ syncTasks = EmptyBag

(***************************************************************************)
(* The client: the page is first loaded with nothing stored.               *)
(***************************************************************************)
Init ==
    \E loaded \in BOOLEAN, fetch \in Fetches :
        \E after \in {AfterInit(NoStorage, 0, loaded, fetch, FALSE)} :
            /\ allFlashcards = after.allFlashcards
            /\ currentPageId = after.currentPageId
            /\ currentCardIndex = after.currentCardIndex
            /\ currentView = after.currentView
            /\ studySession = after.studySession
            /\ studyScreen = after.studyScreen
            /\ userStudyStats = after.userStudyStats
            /\ localStorage = after.localStorage
            /\ last = after.last
            /\ now = 0
            /\ NoPushes
            /\ NoTimers

\* The limits typed into the custom study form.
Limits == {1, 2}

\* The ratings given where the scheduler is not looked at on its own.
SessionRatings == {"good"}

(***************************************************************************)
(* The study session: the page is loaded and reloaded, syncs merge         *)
(* payloads of the server into the Card Store, sessions are started,       *)
(* answered and left, and days pass.  No card carries a tag here, so the   *)
(* tag filter is left empty, and sessions take due and new cards alike.    *)
(* The page is first loaded with any of the payloads; from then on the     *)
(* server answers with nothing, or with the deck of page p1, which holds   *)
(* two cards or has lost them all.                                         *)
(***************************************************************************)
SessionPayloads ==
    { <<>>,
      [p \in {"p1"} |-> <<PlainCard("q1"), PlainCard("q2")>>],
      [p \in {"p1"} |-> <<>>] }

SessionFetches == {<<>>} \cup {<<payload>> : payload \in SessionPayloads}

Next ==
    \/ initWith(SessionFetches)
    \/ \E payload \in SessionPayloads : loadFlashcards(payload)
    \/ \E limit \in Limits : startStudySession(TRUE, TRUE, limit, {})
    \/ \E rating \in SessionRatings : answerStudyCard(rating)
    \/ exitStudyMode
    \/ exitStudyModeTimer
    \/ Tick

Spec == Init /\ [][Next]_vars

(***************************************************************************)
(* The cards view and the syncs: decks are opened, cards are rated and     *)
(* added by hand, and fetched payloads are merged into the Card Store.     *)
(***************************************************************************)
NextMerge ==
    \/ \E payload \in FirstPagePayloads : loadFlashcards(payload)
    \/ \E pageId \in Decks : selectPage(pageId)
    \/ \E rating \in SessionRatings : answerCard(rating)
    \/ \E question \in Questions : saveNewCard(question, TagNames)

SpecMerge == Init /\ [][NextMerge]_vars

\* Syncs and edits as in SpecMerge, where the fetch of a sync may fail.
NextFetch ==
    \/ NextMerge
    \/ \E outcome \in {"status", "throw"} : loadFlashcardsFailed(outcome)

SpecFetch == Init /\ [][NextFetch]_vars

(***************************************************************************)
(* The syncs: the two sync buttons are pressed at any time, the server     *)
(* answers the sync request and the fetch that follows it, the page is     *)
(* reloaded, and a deck is opened and its cards are rated meanwhile.       *)
(***************************************************************************)
NextSync ==
    \/ syncSection
    \/ \E confirmed \in BOOLEAN : fullSync(confirmed)
    \/ \E task \in BagToSet(syncTasks) :
           \E outcome \in {"ok", "failed", "status", "throw"} :
               syncResponse(task, outcome)
    \/ \E task \in BagToSet(syncTasks) :
           \E payload \in SessionPayloads : syncLoaded(task, payload)
    \/ \E task \in BagToSet(syncTasks) :
           \E outcome \in {"status", "throw"} : syncLoadFailed(task, outcome)
    \/ initWith(SessionFetches)
    \/ selectPage("p1")
    \/ \E rating \in SessionRatings : answerCard(rating)

SpecSync == Init /\ [][NextSync]_vars

(***************************************************************************)
(* The life of a card: from an empty store, payloads of the server are     *)
(* merged, cards are added by hand, edited one by one and in batches, and  *)
(* rated, while the pushes of the changes wait for the server.             *)
(***************************************************************************)
NextCards ==
    \/ \E payload \in PlainPayloads \cap FirstPagePayloads : loadFlashcards(payload)
    \/ selectPage("p1")
    \/ \E rating \in Ratings : answerCard(rating)
    \/ \E question \in Questions : saveNewCard(question, TagNames)
    \/ openCardEditor
    \/ \E question \in Questions : saveCardEdits(question, {})
    \/ \E suspend \in BOOLEAN : applyBatchEdits({"p1"}, TagNames, {}, suspend)
    \/ applyBatchEdits({"p1"}, {}, TagNames, FALSE)
    \/ Tick

SpecCards == Init /\ [][NextCards]_vars

(***************************************************************************)
(* The review history at its cap: a deck of two new cards is browsed and   *)
(* rated by a user who has reviewed a card a day, with "good", for n days  *)
(* up to today, n being within MaxReviews of the cap.  The deck itself was *)
(* synced anew, so its cards are new.                                      *)
(***************************************************************************)
OldEntry(k, n) ==
    [date |-> k - n, cardIndex |-> k % 2, pageId |-> "p1", result |-> "good",
     previousInterval |-> MAX_INTERVAL, newInterval |-> MAX_INTERVAL]

OldStats(n) ==
    [cardsStudied |-> 0, totalReviews |-> n, correctReviews |-> n,
     studyTimeMinutes |-> 0, streakDays |-> n, lastStudyDate |-> 0,
     reviewHistory |-> [k \in 1..n |-> OldEntry(k, n)],
     deckStats |-> [p \in {"p1"} |->
                      [cardsStudied |-> 0, totalReviews |-> n,
                       correctReviews |-> n]]]

HistoryLengths == (HISTORY_CAP - MaxReviews)..HISTORY_CAP

InitHistory ==
    /\ \E n \in HistoryLengths :
          /\ userStudyStats = OldStats(n)
          /\ localStorage =
                [allFlashcards |->
                    [p \in {"p1"} |-> <<NewCard("q1", {}), NewCard("q2", {})>>],
                 studySession |-> <<>>, userStudyStats |-> <<OldStats(n)>>,
                 pendingSaves |-> <<>>]
    /\ allFlashcards = [p \in {"p1"} |-> <<NewCard("q1", {}), NewCard("q2", {})>>]
    /\ NoPushes
    /\ NoTimers
    /\ currentPageId = "p1"
    /\ currentCardIndex = 0
    /\ currentView = "cards"
    /\ studySession = NoSession
    /\ studyScreen = "none"
    /\ now = 0
    /\ last = NoLast

NextHistory ==
    \/ \E rating \in Ratings : answerCard(rating)
    \/ selectPage("p1")
    \/ Tick

SpecHistory == InitHistory /\ [][NextHistory]_vars

(***************************************************************************)
(* Auto-advance: a deck is opened and browsed, the auto-advance checkbox   *)
(* is ticked and cleared, its timer fires, the user moves between the home *)
(* view and the cards view, syncs merge payloads, and days pass.           *)
(***************************************************************************)
NextTimer ==
    \/ \E payload \in SessionPayloads : loadFlashcards(payload)
    \/ selectPage("p1")
    \/ \E viewName \in {"home", "cards"} : showView(viewName)
    \/ toggleAnswer
    \/ \E rating \in SessionRatings : answerCard(rating)
    \/ startAutoAdvance
    \/ stopAutoAdvance
    \/ autoAdvanceTick
    \/ Tick

SpecTimer == Init /\ [][NextTimer]_vars

(***************************************************************************)
(* The pushes: cards are rated from the cards view, each rating calls      *)
(* saveFlashcardsToServer, the device goes offline and comes back,         *)
(* requests are answered or fail, and the page is reloaded.                *)
(***************************************************************************)
\* A call under way goes on, its request coming to one of outcomes.
Responses(outcomes) ==
    \/ \E task \in BagToSet(tasks), outcome \in outcomes :
            checkAuthStatus(task, outcome)
    \/ \E task \in BagToSet(tasks) : saveFlashcardsToServer(task)
    \/ \E task \in BagToSet(tasks), outcome \in outcomes :
            processPendingSaves(task, outcome)
    \/ \E task \in BagToSet(tasks), outcome \in outcomes :
            saveResponse(task, outcome)

\* A deck of two new cards is open in the cards view.
InitPush ==
    LET store == [p \in {"p1"} |-> <<NewCard("q1", {}), NewCard("q2", {})>>]
    IN  /\ allFlashcards = store
        /\ localStorage = saveFlashcardsToLocalStorage(NoStorage, store)
        /\ currentPageId = "p1"
        /\ currentCardIndex = 0
        /\ currentView = "cards"
        /\ studySession = NoSession
        /\ studyScreen = "none"
        /\ userStudyStats = NoStats
        /\ now = 0
        /\ last = NoLast
        /\ NoPushes
        /\ NoTimers

\* The fetch of a reload brings nothing: the Card Store is the cached one.
NextPush ==
    \/ initWith({<<>>})
    \/ \E pageId \in Decks : selectPage(pageId)
    \/ \E rating \in SessionRatings : answerCard(rating)
    \/ offlineEvent
    \/ onlineEvent
    \/ \E task \in BagToSet(tasks), outcome \in FetchOutcomes(online) :
            checkAuthStatus(task, outcome)
    \/ \E task \in BagToSet(tasks) : saveFlashcardsToServer(task)
    \/ \E task \in BagToSet(tasks), outcome \in FetchOutcomes(online) :
            processPendingSaves(task, outcome)
    \/ \E task \in BagToSet(tasks), outcome \in FetchOutcomes(online) :
            saveResponse(task, outcome)

SpecPush == InitPush /\ [][NextPush]_vars

(***************************************************************************)
(* The pushes with both ways of rating a card: from the cards view and     *)
(* from a session over the two cards.                                      *)
(***************************************************************************)
NextCommit ==
    \/ NextPush
    \/ startStudySession(TRUE, TRUE, 2, {})
    \/ \E rating \in SessionRatings : answerStudyCard(rating)

SpecCommit == InitPush /\ [][NextCommit]_vars

(***************************************************************************)
(* The flush of the retry queue under a server that accepts every push it  *)
(* is reached with: cards are rated from the cards view, the device goes   *)
(* offline and comes back, the page is reloaded.  The browser answers      *)
(* every request, with a response or with an exception, and runs every     *)
(* continuation: the responses are weakly fair.                            *)
(***************************************************************************)
Accepting(isOnline) == IF isOnline THEN {"ok"} ELSE {"throw"}

NextFlush ==
    \/ initWith({<<>>})
    \/ \E rating \in SessionRatings : answerCard(rating)
    \/ offlineEvent
    \/ onlineEvent
    \/ \E task \in BagToSet(tasks), outcome \in Accepting(online) :
            checkAuthStatus(task, outcome)
    \/ \E task \in BagToSet(tasks) : saveFlashcardsToServer(task)
    \/ \E task \in BagToSet(tasks), outcome \in Accepting(online) :
            processPendingSaves(task, outcome)
    \/ \E task \in BagToSet(tasks), outcome \in Accepting(online) :
            saveResponse(task, outcome)

SpecFlush ==
    InitPush /\ [][NextFlush]_vars /\ WF_vars(Responses(Accepting(online)))

(***************************************************************************)
(* The scheduler on its own: one deck holding one card, rated from the     *)
(* cards view.  The cards are those a store can hold: fresh ones, reviewed *)
(* ones, and ones read back from a cache that holds no scheduling fields.  *)
(***************************************************************************)
SchedIntervals == {Undefined, 0, 1, 2, 10, 783, MAX_INTERVAL}
SchedEases == {<<>>, EASE_FLOOR, <<2, 1>>, EASE_FACTOR_DEFAULT}
SchedReviewCounts == {Undefined, 0, 4}

SchedCards ==
    { [question |-> "q1", tags |-> {}, suspended |-> FALSE,
       interval |-> i, ease |-> e, reviewCount |-> rc,
       due |-> IF Falsy(i) THEN Null ELSE 0] :
         i \in SchedIntervals, e \in SchedEases, rc \in SchedReviewCounts }

InitSched ==
    /\ \E c \in SchedCards :
          /\ allFlashcards = [p \in {"p1"} |-> <<c>>]
          /\ localStorage = [allFlashcards |-> [p \in {"p1"} |-> <<c>>],
                             studySession |-> <<>>, userStudyStats |-> <<NoStats>>,
                             pendingSaves |-> <<>>]
    /\ NoPushes
    /\ NoTimers
    /\ currentPageId = "p1"
    /\ currentCardIndex = 0
    /\ currentView = "cards"
    /\ studySession = NoSession
    /\ studyScreen = "none"
    /\ userStudyStats = NoStats
    /\ now = 0
    /\ last = NoLast

NextSched ==
    \/ \E rating \in Ratings : answerCard(rating)
    \/ Tick

SpecSched == InitSched /\ [][NextSched]_vars

(***************************************************************************)
(* The scheduler called with any rating: the four of the rating buttons    *)
(* and one that is none of them.                                           *)
(***************************************************************************)
AnyRatings == Ratings \cup {"skip"}

NextRating ==
    \/ \E rating \in AnyRatings : answerCard(rating)
    \/ Tick

SpecRating == InitSched /\ [][NextRating]_vars

(***************************************************************************)
(* The queue startStudySession builds, over the Card Stores of one deck of *)
(* up to MaxDeck cards: new and scheduled cards, due on any day up to the  *)
(* day after today, some suspended, some tagged.  The limits are the       *)
(* "Study now" limit of line 1455 and what parseInt makes of the text      *)
(* typed into the custom-study limit at line 1467, which is not validated. *)
(***************************************************************************)
MaxDeck == 3

QueueToday == MaxDeck - 1

QueueDues == {Null} \cup (0..MaxDeck)

QueueCard(due, suspended, tags) ==
    [NewCard("q1", tags) EXCEPT !.due = due, !.suspended = suspended,
                                !.interval = IF due = Null THEN 0 ELSE 1,
                                !.reviewCount = IF due = Null THEN 0 ELSE 1]

QueueCards ==
    {QueueCard(due, FALSE, {}) : due \in QueueDues}
    \cup {QueueCard(due, FALSE, {"t1"}) : due \in {Null, 1}}
    \cup {QueueCard(due, TRUE, {}) : due \in {Null, 0}}

QueueDecks == UNION {[1..n -> QueueCards] : n \in 1..MaxDeck}

QueueLimits == {-1, 0, 1, 2, reviewsPerDay + newCardsPerDay}

TagFilters == {{}, {"t1"}}

InitQueue ==
    /\ \E deck \in QueueDecks :
          /\ allFlashcards = [p \in {"p1"} |-> deck]
          /\ localStorage = saveFlashcardsToLocalStorage(
                                NoStorage, [p \in {"p1"} |-> deck])
    /\ NoPushes
    /\ NoTimers
    /\ currentPageId = "p1"
    /\ currentCardIndex = 0
    /\ currentView = "home"
    /\ studySession = NoSession
    /\ studyScreen = "none"
    /\ userStudyStats = NoStats
    /\ now = QueueToday
    /\ last = NoLast

NextQueue ==
    \E includeDue \in BOOLEAN, includeNew \in BOOLEAN,
       limit \in QueueLimits, tags \in TagFilters :
        startStudySession(includeDue, includeNew, limit, tags)

SpecQueue == InitQueue /\ [][NextQueue]_vars

(***************************************************************************)
(* getDueCounts(), lines 730-760, on day today: the cards of every deck    *)
(* are visited in turn and counted as new, as due, or not at all.          *)
(***************************************************************************)
\* Mutant of CountCard: a suspended card is counted like any other.
CountCardSuspendedToo(counts, card, today) ==
    IF card.due \in {Undefined, Null} THEN [counts EXCEPT !.newCount = @ + 1]
    ELSE IF card.due <= today THEN [counts EXCEPT !.dueCount = @ + 1]
    ELSE counts

\* Lines 741-755: what one card adds to the counts.
CountCard(counts, card, today) ==
    IF card.suspended THEN counts
    ELSE IF card.due \in {Undefined, Null} THEN [counts EXCEPT !.newCount = @ + 1]
    ELSE IF card.due <= today THEN [counts EXCEPT !.dueCount = @ + 1]
    ELSE counts

RECURSIVE CountCards(_, _, _, _)
CountCards(counts, store, entries, today) ==
    IF entries = <<>> THEN counts
    ELSE CountCards(CountCard(counts, CardAt(store, Head(entries)), today),
                    store, Tail(entries), today)

getDueCounts(store, today) ==
    CountCards([dueCount |-> 0, newCount |-> 0,
                totalCount |-> Len(StoreEntries(store, 1))],
               store, StoreEntries(store, 1), today)

\* updateDueCounts(), lines 763-781: the counts are read for the Study
\* button; nothing of the state is written.
updateDueCounts ==
    /\ last' = [NoLast EXCEPT !.op = "updateDueCounts", !.day = now,
                              !.counts = <<getDueCounts(allFlashcards, now)>>]
    /\ UNCHANGED <<allFlashcards, currentPageId, currentCardIndex, currentView,
                   studySession, studyScreen, userStudyStats, localStorage, now>>
    /\ UNCHANGED pushVars
    /\ UNCHANGED <<exitTimer, autoAdvanceTimer, answerHidden, isSyncing, syncTasks>>

NextCounts == updateDueCounts

SpecCounts == InitQueue /\ [][NextCounts]_vars

(***************************************************************************)
(* Properties of the scheduler.  After a rating, and until the next        *)
(* handler runs, last names the rated card and holds it as it was before.  *)
(***************************************************************************)
RatingOps == {"answerCard", "answerStudyCard"}
Rated == last.op \in RatingOps /\ last.before # <<>>
RatedBefore == last.before[1]
RatedCard == allFlashcards[last.pageId][last.cardIndex + 1]
\* The interval and ease the scheduler starts from (lines 2581-2582).
IntervalBefore == IF Falsy(RatedBefore.interval) THEN 0 ELSE RatedBefore.interval
EaseBefore == IF EaseFalsy(RatedBefore.ease) THEN EASE_FACTOR_DEFAULT ELSE RatedBefore.ease

\* C3 (ease floor): after every rating from {again, hard, good, easy} the
\* rated card's ease is at least 1.3.
C3_EaseFloor == Rated => ~RatLess(RatedCard.ease, EASE_FLOOR)

\* C3 witness: a 'hard' rating whose product ease * 0.85 fell below 1.3 and
\* was raised to the floor.
C3_Witness ==
    /\ Rated
    /\ last.rating = "hard"
    /\ RatLess(RatMul(EaseBefore, EASE_MODIFIER_HARD), EASE_FLOOR)
    /\ RatedCard.ease = EASE_FLOOR

\* C4 (interval bounds): after every rating 1 <= interval <= 1460, whatever
\* the card's interval and ease were before.
C4_IntervalBounds ==
    Rated => (RatedCard.interval >= 1 /\ RatedCard.interval <= 1460)

\* C4 witness: a rating whose computed interval exceeded 1460 and was cut
\* to it (783 days at ease 2.5 rated 'good' computes 1958).
C4_Witness ==
    /\ Rated
    /\ last.rating = "good"
    /\ IntervalBefore = 783
    /\ EaseBefore = <<5, 2>>
    /\ RatedCard.interval = 1460

\* C5 (monotonic reviewCount), as claimed: every rating increases the rated
\* card's reviewCount by exactly 1, counting a reviewCount that was never
\* set as 0.
C5_ReviewCountPlusOne ==
    Rated =>
        RatedCard.reviewCount =
            (IF RatedBefore.reviewCount = Undefined THEN 0
             ELSE RatedBefore.reviewCount) + 1

\* C6 (interval and due result): interval' is, by rating, again 1; hard 1
\* from 0, else max(2, ceil(interval * 0.6)); good 1 from 0, 3 from 1, else
\* ceil(interval * ease); easy 3 from 0, 7 from 1, else
\* ceil(interval * ease * 1.3); each cut to [1, 1460]; and due' is the day
\* of the rating plus interval', so it is set and in the future.
C6_Expected ==
    LET i == IntervalBefore
        n == EaseBefore[1]
        d == EaseBefore[2]
        raw == CASE last.rating = "again" -> 1
                 [] last.rating = "hard" ->
                       IF i = 0 THEN 1 ELSE Max(2, (i * 3 + 4) \div 5)
                 [] last.rating = "good" ->
                       IF i = 0 THEN 1 ELSE IF i = 1 THEN 3
                       ELSE (i * n + d - 1) \div d
                 [] last.rating = "easy" ->
                       IF i = 0 THEN 3 ELSE IF i = 1 THEN 7
                       ELSE (i * n * 13 + d * 10 - 1) \div (d * 10)
    IN  IF raw < 1 THEN 1 ELSE IF raw > 1460 THEN 1460 ELSE raw

C6_IntervalAndDue ==
    Rated =>
        /\ RatedCard.interval = C6_Expected
        /\ RatedCard.due = last.day + RatedCard.interval
        /\ RatedCard.due # Null
        /\ RatedCard.due > last.day

\* C6 witness: ten days at ease 2.0 rated 'easy' gives ceil(10 * 2.0 * 1.3)
\* = 26 days, due 26 days after the rating.
C6_Witness ==
    /\ Rated
    /\ last.rating = "easy"
    /\ IntervalBefore = 10
    /\ EaseBefore = <<2, 1>>
    /\ RatedCard.interval = 26
    /\ RatedCard.due = last.day + 26

\* C7 (ease result): ease' is max(1.3, ease - 0.2) for again,
\* max(1.3, ease * 0.85) for hard, ease for good and ease * 1.3 for easy;
\* 2.5 rated again gives 2.3, 2.0 rated hard gives 1.7 and rated easy 2.6.
C7_EaseResult ==
    Rated =>
        /\ last.rating = "again" =>
              RatedCard.ease = RatMax(<<13, 10>>, RatSub(EaseBefore, <<1, 5>>))
        /\ last.rating = "hard" =>
              RatedCard.ease = RatMax(<<13, 10>>, RatMul(EaseBefore, <<17, 20>>))
        /\ last.rating = "good" => RatedCard.ease = EaseBefore
        /\ last.rating = "easy" => RatedCard.ease = RatMul(EaseBefore, <<13, 10>>)
        /\ (last.rating = "again" /\ EaseBefore = <<5, 2>>) => RatedCard.ease = <<23, 10>>
        /\ (last.rating = "hard" /\ EaseBefore = <<2, 1>>) => RatedCard.ease = <<17, 10>>
        /\ (last.rating = "easy" /\ EaseBefore = <<2, 1>>) => RatedCard.ease = <<13, 5>>

\* C7 witness: a card without an ease, taken at the default 2.5, rated
\* 'again' and left at 2.3.
C7_Witness ==
    /\ Rated
    /\ last.rating = "again"
    /\ RatedBefore.ease = <<>>
    /\ RatedCard.ease = <<23, 10>>

\* The scheduling state of a card and what else a merge is to keep.
Kept(card) == <<card.question, card.interval, card.ease, card.due,
                card.reviewCount, card.tags, card.suspended>>

\* The step is a merge of a payload without scheduling fields into a
\* Card Store that holds decks.
MergedPlain ==
    /\ last'.op = "loadFlashcards"
    /\ PlainPayload(last'.payload)
    /\ DOMAIN allFlashcards # {}

\* C1 (sync is additive): after loadFlashcards merges a payload into a
\* non-empty Card Store, every card a local deck held before the merge is
\* still in that deck with the same scheduling fields.  The merge builds the
\* deck from the incoming cards alone (line 1861), so this fails.
C1_SyncIsAdditive ==
    [][MergedPlain =>
         \A p \in DOMAIN allFlashcards : \A i \in 1..Len(allFlashcards[p]) :
            /\ p \in DOMAIN allFlashcards'
            /\ \E j \in 1..Len(allFlashcards'[p]) :
                  Kept(allFlashcards'[p][j]) = Kept(allFlashcards[p][i])]_vars

\* The local card at position i of deck p has the question of an incoming
\* card.
Matched(payload, p, i) ==
    /\ p \in DOMAIN payload
    /\ \E k \in 1..Len(payload[p]) :
          payload[p][k].question = allFlashcards[p][i].question

\* No later card of the deck has the question of the card at position i.
LastWithQuestion(p, i) ==
    \A k \in (i + 1)..Len(allFlashcards[p]) :
        allFlashcards[p][k].question # allFlashcards[p][i].question

\* Merging the payload of the last merge again changes nothing.
MergeIdempotent == MergeStore(allFlashcards', last'.payload) = allFlashcards'

\* C2 as stated (merge non-destructiveness): a merge of a payload without
\* scheduling fields leaves interval, ease, due, reviewCount, tags and
\* suspended of every local card whose question matches an incoming card
\* unchanged, and merging the payload again changes nothing.
C2_EveryMatchedCardKept ==
    [][MergedPlain =>
         /\ \A p \in DOMAIN allFlashcards : \A i \in 1..Len(allFlashcards[p]) :
               Matched(last'.payload, p, i) =>
                  \E j \in 1..Len(allFlashcards'[p]) :
                      Kept(allFlashcards'[p][j]) = Kept(allFlashcards[p][i])
         /\ MergeIdempotent]_vars

\* C2 (merge non-destructiveness), amended: the fields are unchanged for
\* every matched local card that is the last card of its deck with its
\* question: every card of the merged deck with that question carries that
\* card's fields, and there is one.  Merging the payload again changes
\* nothing.
C2_LastMatchedCardKept ==
    [][MergedPlain =>
         /\ \A p \in DOMAIN allFlashcards : \A i \in 1..Len(allFlashcards[p]) :
               (Matched(last'.payload, p, i) /\ LastWithQuestion(p, i)) =>
                  /\ \E j \in 1..Len(allFlashcards'[p]) :
                        allFlashcards'[p][j].question = allFlashcards[p][i].question
                  /\ \A j \in 1..Len(allFlashcards'[p]) :
                        allFlashcards'[p][j].question = allFlashcards[p][i].question
                           => Kept(allFlashcards'[p][j]) = Kept(allFlashcards[p][i])
         /\ MergeIdempotent]_vars

\* C2 witness: a payload without scheduling fields was merged and a card
\* of a merged deck has reviews behind it and an interval, which only a
\* matched local card can have given it.
C2_Witness ==
    /\ last.op = "loadFlashcards"
    /\ PlainPayload(last.payload)
    /\ \E p \in DOMAIN last.payload : \E j \in 1..Len(allFlashcards[p]) :
          /\ allFlashcards[p][j].reviewCount > 0
          /\ allFlashcards[p][j].interval > 0
          /\ allFlashcards[p][j].due # Null

\* The cursor of a session is within its queue or just past its end.
CursorInQueue(session) ==
    0 <= session.currentIndex /\ session.currentIndex <= Len(session.queue)

\* C8 (session cursor invariant): in every reachable state the session, in
\* memory and as persisted, has 0 <= currentIndex <= queue.length.
C8_CursorInQueue ==
    /\ CursorInQueue(studySession)
    /\ localStorage.studySession # <<>> => CursorInQueue(localStorage.studySession[1])

\* C8 witness: a session resumed at page load whose remaining entries were
\* all stale, so that the skips took the cursor to the end of the queue.
C8_Witness ==
    /\ last.op = "init"
    /\ last.shown
    /\ last.skipped > 0
    /\ studySession.currentIndex = Len(studySession.queue)

\* Every entry of the session's queue names a card of the store.
AllLive ==
    \A k \in 1..Len(studySession.queue) : IsLive(allFlashcards, studySession.queue[k])

\* C9 (session completion arithmetic): in a session whose queue entries all
\* name existing cards, a session starts at cursor 0, each answerStudyCard
\* on a card moves the cursor on by exactly 1 and leaves the queue alone;
\* showStudyCard then shows a card while the cursor is short of the queue's
\* length n and the completion screen once it is n; and answerStudyCard at
\* cursor n changes no card and not the session.
C9_CompletionArithmetic ==
    [][/\ (last'.op = "startStudySession" /\ last'.shown) =>
             studySession'.currentIndex = 0
       /\ (last'.op = "answerStudyCard" /\ AllLive) =>
             IF studySession.currentIndex < Len(studySession.queue)
             THEN /\ studySession'.currentIndex = studySession.currentIndex + 1
                  /\ studySession'.queue = studySession.queue
                  /\ studyScreen' =
                        IF studySession'.currentIndex = Len(studySession.queue)
                        THEN "completed" ELSE "card"
                  /\ userStudyStats'.totalReviews = userStudyStats.totalReviews + 1
             ELSE /\ allFlashcards' = allFlashcards
                  /\ studySession' = studySession
                  /\ studyScreen' = studyScreen]_vars

\* C9 witness: the second of two cards of a queue of two was rated and the
\* completion screen is shown.
C9_Witness ==
    /\ last.op = "answerStudyCard"
    /\ last.before # <<>>
    /\ AllLive
    /\ Len(studySession.queue) = 2
    /\ studySession.currentIndex = 2
    /\ userStudyStats.totalReviews = 2
    /\ studyScreen = "completed"

\* What showStudyCard leaves: the cursor moved on by the number of entries
\* skipped, which is at most the number of entries there were from the
\* cursor on; every skipped entry stale; and the first live card shown, or
\* the completion screen when no live entry was left.
SkippedToLive ==
    LET queue == studySession.queue
        index == studySession.currentIndex
    IN  /\ index = last.shownFrom + last.skipped
        /\ last.skipped <= Max(0, Len(queue) - last.shownFrom)
        /\ \A k \in (last.shownFrom + 1)..index : ~IsLive(allFlashcards, queue[k])
        /\ IF index < Len(queue)
           THEN IsLive(allFlashcards, queue[index + 1]) /\ studyScreen = "card"
           ELSE studyScreen = "completed"

\* What recordCardReview writes of the statistics: the counters of reviews,
\* the review history and the counters of the decks.
ReviewStats(stats) ==
    [cardsStudied |-> stats.cardsStudied, totalReviews |-> stats.totalReviews,
     correctReviews |-> stats.correctReviews,
     reviewHistory |-> stats.reviewHistory, deckStats |-> stats.deckStats]

\* C10 (stale-entry skip terminates): whenever a handler comes to show the
\* card at the cursor, showStudyCard ends having moved the cursor once per
\* stale entry, at most queue.length - currentIndex times, and shows the
\* first live card or the completion screen; and answerStudyCard on a stale
\* entry rates nothing: no card changes and no review is recorded.
C10_SkipTerminates ==
    [][last'.shown =>
         /\ SkippedToLive'
         /\ (last'.op = "answerStudyCard" /\ last'.before = <<>>) =>
               /\ allFlashcards' = allFlashcards
               /\ ReviewStats(userStudyStats') = ReviewStats(userStudyStats)]_vars

\* C10 witness: answerStudyCard found the entry at the cursor stale, it and
\* the entry after it were skipped, and no live entry was left.
C10_Witness ==
    /\ last.op = "answerStudyCard"
    /\ last.shown
    /\ last.before = <<>>
    /\ last.skipped = 2
    /\ studyScreen = "completed"

(***************************************************************************)
(* The life of a session.                                                  *)
(***************************************************************************)
\* The completion screen is up: answerStudyCard rated the last card of the
\* queue, and the cursor has reached the end of the queue.
Completed ==
    /\ last.op = "answerStudyCard"
    /\ last.before # <<>>
    /\ currentView = "study"
    /\ studyScreen = "completed"
    /\ studySession.queue # <<>>
    /\ studySession.currentIndex = Len(studySession.queue)

\* C11 (completed is terminal): once the cursor has reached queue.length
\* and the completion screen is shown, the session is inactive and no
\* session is persisted, so that no later page load offers to resume it.
C11_CompletedIsTerminal ==
    Completed => (~studySession.active /\ localStorage.studySession = <<>>)

\* C12 (exit before completion): exitStudyMode sets active to false, keeps
\* the queue and the cursor as they were, persists that session, and changes
\* no card and no counter, in memory or in localStorage.
C12_ExitKeepsQueue ==
    [][last'.op = "exitStudyMode" =>
         /\ ~studySession'.active
         /\ studySession'.queue = studySession.queue
         /\ studySession'.currentIndex = studySession.currentIndex
         /\ localStorage'.studySession = <<studySession'>>
         /\ allFlashcards' = allFlashcards
         /\ userStudyStats' = userStudyStats
         /\ localStorage'.allFlashcards = localStorage.allFlashcards
         /\ localStorage'.userStudyStats = localStorage.userStudyStats]_vars

\* C12 witness: a session of two cards was left after its first card was
\* rated; the rating is in the counters and the second card is still queued.
C12_Witness ==
    /\ last.op = "exitStudyMode"
    /\ ~studySession.active
    /\ Len(studySession.queue) = 2
    /\ studySession.currentIndex = 1
    /\ userStudyStats.totalReviews = 1
    /\ localStorage.studySession = <<studySession>>

\* The session persisted when the page is loaded was left by exitStudyMode
\* before its queue was finished.
ExitedBeforeCompletion(saved) ==
    /\ saved # <<>>
    /\ ~saved[1].active
    /\ saved[1].currentIndex < Len(saved[1].queue)

\* C13 (exited can resume): when the page is loaded with a persisted session
\* that was exited before completion, init offers to resume it.
C13_ExitedIsOffered ==
    [][(last'.op = "init" /\ ExitedBeforeCompletion(localStorage.studySession))
           => last'.offered]_vars

\* C14 (resume on restart): when the page is loaded with a persisted session
\* that is active and has a non-empty queue, init offers to resume it; when
\* the offer is declined the persisted session is removed and the session in
\* memory is inactive with an empty queue and cursor 0.
C14_ResumeOnRestart ==
    [][last'.op = "init" =>
         LET saved == localStorage.studySession
         IN  /\ (saved # <<>> /\ saved[1].active /\ saved[1].queue # <<>>)
                    => last'.offered
             /\ (last'.offered /\ ~last'.shown) =>
                    /\ localStorage'.studySession = <<>>
                    /\ studySession' = [active |-> FALSE, queue |-> <<>>,
                                        currentIndex |-> 0, startTime |-> <<>>]
                    /\ currentView' = "home"]_vars

\* C14 witness: the page was reloaded in the middle of a session of two
\* cards, one of them rated, and the offer to resume it was declined.
C14_Witness ==
    /\ last.op = "init"
    /\ last.offered
    /\ ~last.shown
    /\ userStudyStats.totalReviews = 1
    /\ localStorage.studySession = <<>>
    /\ studySession = NoSession

\* C15 (session persistence): after startStudySession has begun a session,
\* and after answerStudyCard has rated a card or skipped a stale entry, the
\* persisted session is the session in memory; and a page load that resumes
\* the persisted session takes its queue and starts from its cursor, moving
\* on only past stale entries, so that no entry below the persisted cursor
\* is shown again.
C15_SessionPersisted ==
    [][/\ (last'.op \in {"startStudySession", "answerStudyCard"} /\ last'.shown)
            => localStorage'.studySession = <<studySession'>>
       /\ (last'.op = "init" /\ last'.shown) =>
            LET saved == localStorage.studySession[1]
            IN  /\ studySession'.active
                /\ studySession'.queue = saved.queue
                /\ last'.shownFrom = saved.currentIndex
                /\ studySession'.currentIndex = saved.currentIndex + last'.skipped
                /\ (saved.currentIndex < Len(saved.queue)
                        /\ IsLive(allFlashcards', saved.queue[saved.currentIndex + 1]))
                       => (last'.skipped = 0 /\ studyScreen' = "card")
                /\ currentView' = "study"]_vars

\* C15 witness: the page was reloaded after the first of two cards was
\* rated, and the resumed session shows the second card, at cursor 1.
C15_Witness ==
    /\ last.op = "init"
    /\ last.shown
    /\ last.skipped = 0
    /\ Len(studySession.queue) = 2
    /\ studySession.currentIndex = 1
    /\ studyScreen = "card"
    /\ userStudyStats.totalReviews = 1

C17_FailedPushIsQueued ==
    [][(/\ last'.op \in {"checkAuthStatus", "saveResponse"}
        /\ last'.outcome # "ok"
        /\ ~online) =>
            /\ pendingSaves' = Append(pendingSaves, QueuedSave(allFlashcards, now))
            /\ localStorage'.pendingSaves = <<pendingSaves'>>]_vars

\* C18 (no reordering): saveFlashcardsToServer sends the Card Store only
\* when no older payload is left in the retry queue: in a step that sends
\* it, the queue is empty.
C18_NoNewerBeforeOlder ==
    [][(/\ last'.op \in {"saveFlashcardsToServer", "processPendingSaves"}
        /\ CopiesIn(SendCall(allFlashcards), tasks')
               > CopiesIn(SendCall(allFlashcards), tasks)) =>
            pendingSaves' = <<>>]_vars

\* C19 (retry failure keeps the unsent suffix): when the push of entry i
\* fails in a flush that is the only call under way, on the queue as the
\* flush sent it, the queue afterwards is the entries from the failed one
\* on, in their order, in memory and in localStorage.
C19_UnsentSuffixKept ==
    [][(/\ last'.op = "processPendingSaves"
        /\ last'.outcome # "ok"
        /\ tasks = SetToBag({last'.task[1]})
        /\ last'.task[1].i < Len(pendingSaves)
        /\ pendingSaves[last'.task[1].i + 1].data = last'.task[1].body[1]) =>
            LET i == last'.task[1].i
            IN  /\ Len(pendingSaves') = Len(pendingSaves) - i
                /\ \A k \in 1..Len(pendingSaves') :
                       pendingSaves'[k] = pendingSaves[i + k]
                /\ localStorage'.pendingSaves = <<pendingSaves'>>]_vars

\* C19 witness: a flush of two entries, called by the 'online' event, had
\* its first push accepted and its second fail; the second entry is the
\* queue.
C19_Witness ==
    /\ last.op = "processPendingSaves"
    /\ last.outcome # "ok"
    /\ last.task[1].i = 1
    /\ last.task[1].caller = "event"
    /\ tasks = EmptyBag
    /\ Len(pendingSaves) = 1
    /\ pendingSaves[1].data = last.task[1].body[1]
    /\ localStorage.pendingSaves = <<pendingSaves>>
    /\ delivered # {}

\* The retry queue that localStorage holds: none when the item is absent.
StoredPendingSaves ==
    IF localStorage.pendingSaves = <<>> THEN <<>> ELSE localStorage.pendingSaves[1]

\* The device is online, and the step before was not the user's (a rating,
\* a reload) nor a loss of the connection.
OnlineAndLeftAlone ==
    /\ online
    /\ last.op \notin {"init", "answerCard", "offlineEvent"}

\* C20 (eventual consistency): if from some time on the device is online,
\* the server accepts every push, and the user neither rates a card nor
\* reloads the page, then from some time on the retry queue is empty in
\* memory and in localStorage.
C20_EventuallyFlushed ==
    (<>[]OnlineAndLeftAlone)
        => <>[](pendingSaves = <<>> /\ StoredPendingSaves = <<>>)

(***************************************************************************)
(* Concurrency of the pushes and of the syncs.                             *)
(***************************************************************************)
\* The calls whose POST to /api/flashcards/update is waiting for its
\* response: the pushes of the Card Store and those of queued entries.
WritesInFlight ==
    LET writing == {task \in BagToSet(tasks) : task.pc \in {"send", "flush"}}
        Copies[set \in SUBSET writing] ==
            IF set = {} THEN 0
            ELSE LET task == CHOOSE t \in set : TRUE
                 IN  CopiesIn(task, tasks) + Copies[set \ {task}]
    IN  Copies[writing]

\* C21 (no concurrent remote writes): at most one write of the Card Store
\* to the server is waiting for its response at any time.
C21_OneWriteInFlight == WritesInFlight <= 1

\* A session is under way: started, not left, and its queue not finished.
SessionUnderWay ==
    /\ studySession.active
    /\ currentView = "study"
    /\ studySession.currentIndex < Len(studySession.queue)

\* C22 (sync is not interleaved with an active session): no loadFlashcards
\* merge runs while a session is under way, so whatever merge step there is
\* leaves every queue entry still to be rated denoting the card, by its
\* question, that it denoted before.
C22_NoSyncInSession ==
    [][(last'.op = "loadFlashcards" /\ SessionUnderWay) =>
          \A k \in (studySession.currentIndex + 1)..Len(studySession.queue) :
              LET entry == studySession.queue[k]
              IN  IsLive(allFlashcards, entry) =>
                      /\ IsLive(allFlashcards', entry)
                      /\ CardAt(allFlashcards', entry).question
                             = CardAt(allFlashcards, entry).question]_vars

(***************************************************************************)
(* Properties of the queue startStudySession builds.                       *)
(***************************************************************************)
\* The queue a step of startStudySession built: none when it found nothing.
BuiltQueue == IF last'.shown THEN studySession'.queue ELSE <<>>

ReviewEntries(queue) ==
    LET IsReview(e) == e.type = "review" IN SelectSeq(queue, IsReview)

NewEntries(queue) ==
    LET IsNew(e) == e.type = "new" IN SelectSeq(queue, IsNew)

\* The cards of the store that are due today and pass the tag filter.
DueToday(store, today, tags) ==
    {e \in {StoreEntries(store, 1)[i] : i \in 1..Len(StoreEntries(store, 1))} :
        LET card == CardAt(store, e)
        IN  /\ card.due # Null
            /\ card.due <= today
            /\ ~card.suspended
            /\ (tags = {} \/ card.tags \cap tags # {})}

\* C23: in every queue startStudySession builds with includeDue, the review
\* entries are in non-decreasing order of their cards' due dates; without
\* includeNew, and with a limit that takes every due card, the queue is the
\* due cards and nothing else, each once, so that cards due on d1 < d2 < d3
\* make the queue [d1, d2, d3].
C23_DueSortOrder ==
    [][\A includeNew \in BOOLEAN, limit \in QueueLimits, tags \in TagFilters :
          startStudySession(TRUE, includeNew, limit, tags) =>
              LET reviews == ReviewEntries(BuiltQueue)
                  due == DueToday(allFlashcards, now, tags)
              IN  /\ \A i, j \in 1..Len(reviews) :
                        i < j => CardAt(allFlashcards, reviews[i]).due
                                 <= CardAt(allFlashcards, reviews[j]).due
                  /\ (~includeNew /\ limit >= Cardinality(due)) =>
                        /\ Len(BuiltQueue) = Cardinality(due)
                        /\ {[pageId |-> BuiltQueue[i].pageId,
                             cardIndex |-> BuiltQueue[i].cardIndex] :
                                i \in 1..Len(BuiltQueue)} = due
                        /\ \A i \in 1..Len(BuiltQueue) :
                              BuiltQueue[i].type = "review"]_vars

\* Three cards due on three different days, the last of the deck the
\* earliest, make a queue of three reviews in the order of their due dates.
C23_Witness ==
    /\ last.op = "startStudySession"
    /\ last.shown
    /\ Len(studySession.queue) = 3
    /\ \A i \in 1..3 : studySession.queue[i].type = "review"
    /\ studySession.queue[1].cardIndex = 2
    /\ \A i \in 1..2 : CardAt(allFlashcards, studySession.queue[i]).due
                       < CardAt(allFlashcards, studySession.queue[i + 1]).due

\* C24: for every Card Store and every limit, the queue startStudySession
\* builds has at most min(reviewsPerDay, limit) review entries, at most
\* min(newCardsPerDay, limit - review entries) new entries, and so no more
\* than limit entries; a cap below zero is read as a cap of zero, so that
\* only a queue with entries in it can break it.
C24_QueueSizeCaps ==
    [][\A includeDue \in BOOLEAN, includeNew \in BOOLEAN,
          limit \in QueueLimits, tags \in TagFilters :
          startStudySession(includeDue, includeNew, limit, tags) =>
              LET reviews == Len(ReviewEntries(BuiltQueue))
                  news == Len(NewEntries(BuiltQueue))
              IN  /\ reviews <= Max(0, Min(reviewsPerDay, limit))
                  /\ news <= Max(0, Min(newCardsPerDay, limit - reviews))
                  /\ Len(BuiltQueue) <= Max(0, limit)]_vars

\* C25: every entry of a queue startStudySession builds names a card that is
\* not suspended and that passes the tag filter; a review entry names a card
\* due by now and is there only with includeDue, a new entry names a card
\* with due = null and is there only with includeNew, and every review entry
\* comes before every new entry.
C25_QueueMembership ==
    [][\A includeDue \in BOOLEAN, includeNew \in BOOLEAN,
          limit \in QueueLimits, tags \in TagFilters :
          startStudySession(includeDue, includeNew, limit, tags) =>
              /\ \A i \in 1..Len(BuiltQueue) :
                    LET entry == BuiltQueue[i]
                        card == CardAt(allFlashcards, entry)
                    IN  /\ IsLive(allFlashcards, entry)
                        /\ ~card.suspended
                        /\ (tags = {} \/ card.tags \cap tags # {})
                        /\ entry.type \in {"review", "new"}
                        /\ entry.type = "review" =>
                              /\ includeDue
                              /\ card.due # Null
                              /\ card.due <= now
                        /\ entry.type = "new" =>
                              /\ includeNew
                              /\ card.due = Null
              /\ \A i, j \in 1..Len(BuiltQueue) :
                    (BuiltQueue[i].type = "review" /\ BuiltQueue[j].type = "new")
                        => i < j]_vars

\* A deck of a new card, a card due today and a third card without the tag:
\* the queue is the review of the second and then the first, both tagged.
C25_Witness ==
    /\ last.op = "startStudySession"
    /\ last.shown
    /\ Len(allFlashcards["p1"]) = 3
    /\ allFlashcards["p1"][3].tags = {}
    /\ ~allFlashcards["p1"][3].suspended
    /\ Len(studySession.queue) = 2
    /\ studySession.queue[1] = [pageId |-> "p1", cardIndex |-> 1, type |-> "review"]
    /\ studySession.queue[2] = [pageId |-> "p1", cardIndex |-> 0, type |-> "new"]
    /\ \A i \in 1..2 : allFlashcards["p1"][i].tags = {"t1"}

\* C26: when the queue startStudySession computes is empty, no session is
\* created: the session in memory, the persisted session and the view are
\* left as they were, and the notification says there is nothing to study.
C26_NothingToStudy ==
    [][\A includeDue \in BOOLEAN, includeNew \in BOOLEAN,
          limit \in QueueLimits, tags \in TagFilters :
          (/\ startStudySession(includeDue, includeNew, limit, tags)
           /\ StudyQueue(allFlashcards, now, includeDue, includeNew, limit, tags)
                  = <<>>)
          => /\ studySession' = studySession
             /\ localStorage'.studySession = localStorage.studySession
             /\ currentView' = currentView
             /\ last'.notification
                    = "No cards to study based on your criteria."]_vars

\* A start that found nothing to study, with the session of an earlier
\* start still in memory and in storage.
C26_Witness ==
    /\ last.op = "startStudySession"
    /\ last.notification = "No cards to study based on your criteria."
    /\ studySession.active
    /\ studySession.queue # <<>>
    /\ localStorage.studySession = <<studySession>>
    /\ currentView = "study"

\* C27: a call of the scheduler with a rating outside {again, hard, good,
\* easy} fails, and leaves the card's interval, ease, due and reviewCount as
\* they were.
C27_UnrecognizedRatingFailsFast ==
    (Rated /\ last.rating \notin Ratings) =>
        /\ last.outcome = "RangeError"
        /\ RatedCard.interval = RatedBefore.interval
        /\ RatedCard.ease = RatedBefore.ease
        /\ RatedCard.due = RatedBefore.due
        /\ RatedCard.reviewCount = RatedBefore.reviewCount

\* C28: answerStudyCard run while the session is not active (never started,
\* exited before completion, or completed) changes no card, no statistic and
\* not the cursor of the session.
C28_NoRatingWithoutSession ==
    [][(last'.op = "answerStudyCard" /\ ~studySession.active) =>
          /\ allFlashcards' = allFlashcards
          /\ userStudyStats' = userStudyStats
          /\ studySession'.currentIndex = studySession.currentIndex]_vars

\* incoming.field ?? local.field, for a numeric field the payload carries
\* as <<value>> or not at all.
Fallback(incoming, local) ==
    IF incoming = <<>> THEN local
    ELSE IF incoming[1] \in {Null, Undefined} THEN local
    ELSE incoming[1]

\* The same for ease, which the payloads carry as a fraction or not at all.
FallbackEase(incoming, local) == IF incoming = <<>> THEN local ELSE incoming[1]

\* C29: in a merge, every incoming card whose question a local card of the
\* deck has takes interval, ease, due and reviewCount from the payload where
\* the payload supplies a value, and keeps the local card's value where the
\* field is absent or null.
C29_MergeFallback ==
    [][(last'.op = "loadFlashcards" /\ DOMAIN allFlashcards # {}) =>
          \A p \in DOMAIN allFlashcards \cap DOMAIN last'.payload :
          \A k \in 1..Len(last'.payload[p]) :
          \A i \in 1..Len(allFlashcards[p]) :
             LET incoming == last'.payload[p][k]
                 local == allFlashcards[p][i]
                 merged == allFlashcards'[p][k]
             IN  (local.question = incoming.question /\ LastWithQuestion(p, i)) =>
                    /\ merged.interval = Fallback(incoming.interval, local.interval)
                    /\ merged.ease = FallbackEase(incoming.ease, local.ease)
                    /\ merged.due = Fallback(incoming.due, local.due)
                    /\ merged.reviewCount
                          = Fallback(incoming.reviewCount, local.reviewCount)]_vars

\* The cards of the store that satisfy Test.
CardsWhere(store, Test(_)) ==
    {i \in 1..Len(StoreEntries(store, 1)) :
        Test(CardAt(store, StoreEntries(store, 1)[i]))}

\* C30: for every Card Store and day, getDueCounts gives as newCount the
\* number of cards that are not suspended and have due = null, and as
\* dueCount the number of cards that are not suspended and are due by now;
\* a suspended card is in neither count, no card is in both, and the Card
\* Store is as it was before the call.
C30_DueSetClassification ==
    [][last'.op = "updateDueCounts" =>
          LET counts == last'.counts[1]
              IsNew(card) == ~card.suspended /\ card.due = Null
              IsDue(card) == ~card.suspended /\ card.due # Null /\ card.due <= now
              IsIdle(card) == card.suspended \/ (card.due # Null /\ card.due > now)
          IN  /\ counts.newCount = Cardinality(CardsWhere(allFlashcards, IsNew))
              /\ counts.dueCount = Cardinality(CardsWhere(allFlashcards, IsDue))
              /\ counts.newCount + counts.dueCount
                    + Cardinality(CardsWhere(allFlashcards, IsIdle))
                        = counts.totalCount
              /\ allFlashcards' = allFlashcards
              /\ localStorage' = localStorage]_vars

\* The counts of a deck of a new card, a card that is due and a suspended
\* card: one new, one due, three in all.
C30_Witness ==
    /\ last.op = "updateDueCounts"
    /\ last.counts = <<[dueCount |-> 1, newCount |-> 1, totalCount |-> 3]>>
    /\ \E i \in 1..3 : allFlashcards["p1"][i].suspended

(***************************************************************************)
(* Properties of the cards, of the statistics and of the syncs.            *)
(***************************************************************************)
\* Every card of the Card Store.
AllCards == {CardAt(allFlashcards, StoreEntries(allFlashcards, 1)[i]) :
                i \in 1..Len(StoreEntries(allFlashcards, 1))}

\* C31: in every state reached from an empty store by merges of payloads
\* without scheduling fields, cards added by hand, card edits, batch edits
\* and ratings, a card has due = null exactly when its reviewCount and its
\* interval are both 0.
C31_SchedulingInvariant ==
    \A card \in AllCards :
        (card.due = Null) <=> (card.reviewCount = 0 /\ card.interval = 0)

\* A deck that holds a rated card, scheduled, beside a new one, after an
\* edit.
C31_Witness ==
    /\ last.op \in {"saveCardEdits", "applyBatchEdits"}
    /\ \E card \in AllCards :
          card.due # Null /\ card.reviewCount = 1 /\ card.interval >= 1
    /\ \E card \in AllCards : card.due = Null /\ card.reviewCount = 0

\* C32 (bounded review history): reviewHistory never holds more than
\* HISTORY_CAP entries; a rating that is applied appends one entry, that of
\* the rated card, at the end, and past the cap the oldest entries go first:
\* the history is then the last HISTORY_CAP entries of the history before
\* with the new entry appended, in their order.
C32_BoundedHistory ==
    /\ [](Len(userStudyStats.reviewHistory) <= HISTORY_CAP)
    /\ [][(last'.op = "answerCard" /\ last'.outcome = "") =>
            LET before == userStudyStats.reviewHistory
                after == userStudyStats'.reviewHistory
                appended == Append(before, after[Len(after)])
                kept == Min(Len(appended), HISTORY_CAP)
            IN  /\ after # <<>>
                /\ after[Len(after)].pageId = last'.pageId
                /\ after[Len(after)].cardIndex = last'.cardIndex
                /\ after[Len(after)].result = last'.rating
                /\ after = SubSeq(appended, Len(appended) - kept + 1,
                                  Len(appended))]_vars

\* C32 witness: a rating was recorded in a full history, whose oldest entry
\* went.
C32_Witness ==
    /\ last.op = "answerCard"
    /\ last.outcome = ""
    /\ Len(userStudyStats.reviewHistory) = HISTORY_CAP
    /\ userStudyStats.totalReviews > HISTORY_CAP
    /\ userStudyStats.reviewHistory[1].date < 0
    /\ userStudyStats.reviewHistory[HISTORY_CAP].date = now

\* A rating was applied by the last handler: it found the card and the
\* scheduler returned.
RatingApplied ==
    /\ last.op \in {"answerCard", "answerStudyCard", "autoAdvanceTick"}
    /\ last.before # <<>>
    /\ last.outcome = ""

\* The statistics of reviews together with the streak.
RatingStats(stats) ==
    [reviews |-> ReviewStats(stats), streakDays |-> stats.streakDays,
     lastStudyDate |-> stats.lastStudyDate]

\* C33 (statistics are written only by rating application): cardsStudied,
\* totalReviews, correctReviews, streakDays, lastStudyDate, reviewHistory and
\* deckStats change only in a step that applies a rating; loading the page,
\* starting or exiting a session, sync merges and edits of cards leave them
\* as they were.
C33_StatsOnlyByRating ==
    [][~RatingApplied' =>
          RatingStats(userStudyStats') = RatingStats(userStudyStats)]_vars

\* C36 (first-review counting): a rating applied to a card whose reviewCount
\* was 0 adds exactly 1 to cardsStudied and to the cardsStudied of the
\* card's deck, and a rating applied to any other card adds nothing to
\* them, through answerCard and through answerStudyCard alike.
C36_FirstReviewCounted ==
    [][RatingApplied' =>
          LET first == IF last'.before[1].reviewCount = 0 THEN 1 ELSE 0
              deckBefore == DeckStatsOf(userStudyStats.deckStats, last'.pageId)
              deckAfter == DeckStatsOf(userStudyStats'.deckStats, last'.pageId)
          IN  /\ userStudyStats'.cardsStudied = userStudyStats.cardsStudied + first
              /\ deckAfter.cardsStudied = deckBefore.cardsStudied + first]_vars

\* C37 (history entry contents): the entry appended to reviewHistory for a
\* rating records, as previousInterval, the interval the card had before
\* the rating was applied and, as newInterval, the interval it has after.
C37_HistoryEntryIntervals ==
    [][RatingApplied' =>
          LET history == userStudyStats'.reviewHistory
              entry == history[Len(history)]
              rated == allFlashcards'[last'.pageId][last'.cardIndex + 1]
          IN  /\ history # <<>>
              /\ entry.previousInterval = last'.before[1].interval
              /\ entry.newInterval = rated.interval]_vars

\* The persisted session is finished: its cursor is at the end of its queue.
FinishedSession(saved) ==
    saved # <<>> /\ saved[1].currentIndex >= Len(saved[1].queue)

\* C39 (study time is added once per session): the step in which a rating
\* or a skip of answerStudyCard brings the session to its completion adds
\* the minutes elapsed since the session's start to studyTimeMinutes, and a
\* page load that resumes a session already finished, and so presents the
\* completion again, leaves studyTimeMinutes as it was.
C39_StudyTimeOnce ==
    [][/\ (last'.op = "answerStudyCard" /\ last'.shown
              /\ studyScreen' = "completed") =>
            userStudyStats'.studyTimeMinutes =
                OrElse(userStudyStats.studyTimeMinutes, 0)
                + (now - studySession.startTime[2]) * MinutesPerDay
       /\ (last'.op = "init" /\ last'.shown
              /\ FinishedSession(localStorage.studySession)) =>
            userStudyStats'.studyTimeMinutes = userStudyStats.studyTimeMinutes
      ]_vars

\* C34 (timer handlers are guarded by the current view): a tick of the
\* auto-advance timer that fires while the current view is not the cards
\* view applies no rating and changes neither the Card Store nor the
\* statistics.
C34_TickGuardedByView ==
    [][(last'.op = "autoAdvanceTick" /\ currentView # "cards") =>
          /\ last'.rating = ""
          /\ allFlashcards' = allFlashcards
          /\ userStudyStats' = userStudyStats]_vars

\* C35 (fetch failure falls back to last-known-good data): when the fetch of
\* loadFlashcards fails, by a network error or by a response that is not OK,
\* the Card Store in memory and its copy in localStorage are what they were
\* before the call.
C35_FailedFetchKeepsStore ==
    [][(last'.op = "loadFlashcards" /\ last'.outcome \in {"status", "throw"}) =>
          /\ allFlashcards' = allFlashcards
          /\ localStorage'.allFlashcards = localStorage.allFlashcards]_vars

\* C35 witness: the fetch failed on a store that holds a card already
\* reviewed.
C35_Witness ==
    /\ last.op = "loadFlashcards"
    /\ last.outcome \in {"status", "throw"}
    /\ \E card \in AllCards : card.reviewCount = 1
    /\ localStorage.allFlashcards = allFlashcards

\* The calls of processPendingSaves that wait for a response.
Flushes(bag) == {task \in BagToSet(bag) : task.pc = "flush"}

\* C38 (overlapping flushes lose nothing): whenever a step of
\* processPendingSaves leaves no processPendingSaves under way, every entry
\* the retry queue held before the step is still in the queue or its
\* payload has been accepted by the server.
C38_FlushesLoseNothing ==
    [][(last'.op = "processPendingSaves" /\ Flushes(tasks') = {}) =>
          \A k \in 1..Len(pendingSaves) :
              \/ \E j \in 1..Len(pendingSaves') : pendingSaves'[j] = pendingSaves[k]
              \/ pendingSaves[k].data \in delivered']_vars

\* A step that is a press of a sync button, up to the first await.
SyncRequested ==
    /\ last'.op \in SyncKinds
    /\ last'.outcome \in {"refused", "declined", "started"}

(***************************************************************************)
(* C40: at most one sync, syncSection or fullSync, is in progress at any   *)
(* time, and isSyncing is set exactly while one is; a sync requested while *)
(* isSyncing is set issues no remote call and leaves the Card Store alone; *)
(* and isSyncing is clear after every step that ends a sync, whether it    *)
(* succeeded, was reported failed by the server, or threw.                 *)
(***************************************************************************)
C40_SyncMutualExclusion ==
    /\ [](/\ BagCardinality(syncTasks) <= 1
          /\ isSyncing <=> (syncTasks # EmptyBag))
    /\ [][/\ (isSyncing /\ SyncRequested) =>
                 /\ syncTasks' = syncTasks
                 /\ tasks' = tasks
                 /\ allFlashcards' = allFlashcards
                 /\ isSyncing'
          /\ (BagCardinality(syncTasks') < BagCardinality(syncTasks)) =>
                 ~isSyncing']_vars

\* A sync button was pressed while a sync was waiting for the server, and
\* the press was turned down.
C40_Witness ==
    /\ last.op \in SyncKinds
    /\ last.outcome = "refused"
    /\ isSyncing
    /\ BagCardinality(syncTasks) = 1

=============================================================================
